---------------------------- MODULE Spec2Model ----------------------------
(***************************************************************************)
(* hakoniwa-envsim: the environment compiler (creator), the BVH spatial    *)
(* index (fastsearch), the Environment facade and the runtime disturbance  *)
(* loop (envasset), as state machines.                                     *)
(*                                                                         *)
(* Numbers.  Python floats are modelled by exact integers, and GPS         *)
(* strengths by exact rationals <<num, den>>; lengths are kept in the      *)
(* scene's own unit.  Where the code halves a sum (a centre), the model    *)
(* keeps the doubled value and doubles the other side of the comparison.   *)
(* Optional values (Python None) are sequences: << >> is None, <<v>> is v. *)
(***************************************************************************)
EXTENDS Integers, Sequences, FiniteSets, TLC

VARIABLES
    \* ---- fastsearch: the input of build_bvh, the Environment object, a query
    areas,          \* list of AABB handed to build_bvh (from_files: areas_list, in file order)
    links,          \* Environment.links: the dict area_id -> property_id, a function
    properties,     \* Environment.properties: the dict property_id -> props, a function
    bvh_root,       \* Environment.bvh_root: << >> before the build, <<node>> after
    max_depth,      \* build_bvh's max_depth
    leaf_capacity,  \* build_bvh's leaf_capacity
    raised,         \* name of the exception that ended the current run, "" if none
    query,          \* << >>, or <<p>> for the last point looked up
    hits,           \* the list search_point returned for query
    visited,        \* stats["visited"] of that search
    answer,         \* << >>, or <<r>>: what get_property_at returned for query
    files,          \* the dataset on disk: << >>, or <<[area, link, property]>>
    \* ---- creator: the CreatorBuilder object
    env_model,      \* CreatorBuilder.env: the scene, << >> when no compiler runs
    base_prop,      \* CreatorBuilder.base_prop: << >> before build_base
    b_areas,        \* CreatorBuilder.areas
    b_props,        \* CreatorBuilder.props
    b_links,        \* CreatorBuilder.links
    step,           \* the builder method that ran last ("new" before any)
    py_rng,         \* state of the generator of Python's random module
    np_rng,         \* state of numpy's global generator (np.random)
    \* ---- envasset: the runtime callback on_manual_timing_control
    pc,             \* where the callback stands ("off" when no runtime runs)
    env_dir,        \* area_config_dir: file name -> parsed JSON content
    config,         \* the file at config_path, as from_config reads it
    pdu,            \* the transport service: "none", "started" or "stopped"
    drones,         \* manager.drones: the list of DroneIO
    tick,           \* number of ticks my_sleep has granted
    poses,          \* raw content of each drone's pos channel in this tick
    di,             \* index in manager.drones of the next drone of this tick
    ticklog         \* the calls made so far in this tick, in order

fsvars == <<areas, links, properties, bvh_root, max_depth, leaf_capacity,
            raised, query, hits, visited, answer>>

cvars == <<env_model, base_prop, b_areas, b_props, b_links, step, py_rng, np_rng>>

rvars == <<pc, env_dir, config, pdu, drones, tick, poses, di, ticklog>>

vars == <<fsvars, files, cvars, rvars>>

None == << >>
Some(v) == <<v>>
IsNone(o) == o = << >>
The(o) == o[1]

(***************************************************************************)
(* Bounds of the model.                                                    *)
(***************************************************************************)
MaxAreas == 3       \* longest list of AABBs handed to build_bvh
MaxDepthB == 2      \* largest max_depth tried (0..MaxDepthB)
MaxLeafCap == 2     \* largest leaf_capacity tried (1..MaxLeafCap)

(***************************************************************************)
(* fastsearch/builder.py                                                   *)
(***************************************************************************)
AABB(x0, y0, z0, x1, y1, z1, id) ==
    [minx |-> x0, miny |-> y0, minz |-> z0,
     maxx |-> x1, maxy |-> y1, maxz |-> z1, id |-> id]

Min2(a, b) == IF a <= b THEN a ELSE b
Max2(a, b) == IF a >= b THEN a ELSE b

SeqMin(s) == CHOOSE m \in {s[i] : i \in DOMAIN s} : \A i \in DOMAIN s : m <= s[i]
SeqMax(s) == CHOOSE m \in {s[i] : i \in DOMAIN s} : \A i \in DOMAIN s : m >= s[i]

Field(a, k) ==
    CASE k = "minx" -> a.minx [] k = "miny" -> a.miny [] k = "minz" -> a.minz
      [] k = "maxx" -> a.maxx [] k = "maxy" -> a.maxy [] k = "maxz" -> a.maxz

Column(as, k) == [i \in DOMAIN as |-> Field(as[i], k)]

\* The box of a leaf: min / max over its members, id -1.
LeafBox(as) ==
    AABB(SeqMin(Column(as, "minx")), SeqMin(Column(as, "miny")), SeqMin(Column(as, "minz")),
         SeqMax(Column(as, "maxx")), SeqMax(Column(as, "maxy")), SeqMax(Column(as, "maxz")), -1)

\* (mutant) an inner node takes the box of its left child.
LeftBoxOnly(l, r) == AABB(l.minx, l.miny, l.minz, l.maxx, l.maxy, l.maxz, -1)

\* The box of an inner node: the union of its children's boxes, id -1.
MergedBox(l, r) ==
    AABB(Min2(l.minx, r.minx), Min2(l.miny, r.miny), Min2(l.minz, r.minz),
         Max2(l.maxx, r.maxx), Max2(l.maxy, r.maxy), Max2(l.maxz, r.maxz), -1)

\* Twice the centre of a box on axis k (1 = x, 2 = y, 3 = z).
Center2(a, k) ==
    CASE k = 1 -> a.minx + a.maxx [] k = 2 -> a.miny + a.maxy [] k = 3 -> a.minz + a.maxz

\* spreads = centers.max(axis=0) - centers.min(axis=0), doubled.
Spread2(as, k) ==
    LET c == [i \in DOMAIN as |-> Center2(as[i], k)] IN SeqMax(c) - SeqMin(c)

\* int(np.argmax(spreads)): the first axis of largest spread.
ArgMaxSpread(as) ==
    CHOOSE k \in 1..3 :
        /\ \A j \in 1..3 : Spread2(as, k) >= Spread2(as, j)
        /\ \A j \in 1..(k - 1) : Spread2(as, j) < Spread2(as, k)

\* key_names[axis]: the member's min coordinate on the chosen axis.
SortKey(a, axis) == CASE axis = 1 -> a.minx [] axis = 2 -> a.miny [] axis = 3 -> a.minz

\* list.sort(key=...): stable, ascending.  The element of s that lands at
\* position p is the one with exactly p - 1 elements ordered before it.
StableSortAsc(s, axis) ==
    LET Before(i, j) == \/ SortKey(s[i], axis) < SortKey(s[j], axis)
                        \/ (SortKey(s[i], axis) = SortKey(s[j], axis) /\ i < j)
        Rank(j) == Cardinality({i \in DOMAIN s : Before(i, j)}) + 1
    IN  [p \in DOMAIN s |-> s[CHOOSE j \in DOMAIN s : Rank(j) = p]]

\* (mutant) the median index is rounded up.
MidIndexCeil(n) == (n + 1) \div 2

\* mid = len(areas) // 2
MidIndex(n) == n \div 2

LeafNode(as) ==
    [aabb |-> LeafBox(as), is_leaf |-> TRUE,
     ids |-> [i \in DOMAIN as |-> as[i].id], areas |-> as,
     left |-> << >>, right |-> << >>]

InnerNode(l, r) ==
    [aabb |-> MergedBox(l.aabb, r.aabb), is_leaf |-> FALSE,
     ids |-> << >>, areas |-> << >>, left |-> <<l>>, right |-> <<r>>]

\* (mutant) the right slice starts at the median member itself.
RECURSIVE build_bvh_overlap(_, _, _, _)
build_bvh_overlap(as, depth, maxd, cap) ==
    IF Len(as) <= cap \/ depth >= maxd
    THEN LeafNode(as)
    ELSE LET sorted == StableSortAsc(as, ArgMaxSpread(as))
             mid == MidIndex(Len(sorted))
             l == build_bvh_overlap(SubSeq(sorted, 1, mid), depth + 1, maxd, cap)
             r == build_bvh_overlap(SubSeq(sorted, mid, Len(sorted)), depth + 1, maxd, cap)
         IN  InnerNode(l, r)

\* (mutant) the depth cap is not tested.
RECURSIVE build_bvh_uncapped(_, _, _, _)
build_bvh_uncapped(as, depth, maxd, cap) ==
    IF Len(as) <= cap
    THEN LeafNode(as)
    ELSE LET sorted == StableSortAsc(as, ArgMaxSpread(as))
             mid == MidIndex(Len(sorted))
             l == build_bvh_uncapped(SubSeq(sorted, 1, mid), depth + 1, maxd, cap)
             r == build_bvh_uncapped(SubSeq(sorted, mid + 1, Len(sorted)), depth + 1, maxd, cap)
         IN  InnerNode(l, r)

\* build_bvh on a non-empty list (the recursion never meets an empty one
\* when leaf_capacity >= 1: a list that is split has at least two members).
RECURSIVE build_bvh(_, _, _, _)
build_bvh(as, depth, maxd, cap) ==
    IF Len(as) <= cap \/ depth >= maxd
    THEN LeafNode(as)
    ELSE LET sorted == StableSortAsc(as, ArgMaxSpread(as))
             mid == MidIndex(Len(sorted))
             l == build_bvh(SubSeq(sorted, 1, mid), depth + 1, maxd, cap)
             r == build_bvh(SubSeq(sorted, mid + 1, Len(sorted)), depth + 1, maxd, cap)
         IN  InnerNode(l, r)

(***************************************************************************)
(* fastsearch/search.py                                                    *)
(***************************************************************************)
\* (mutant) the max faces belong to the box.
point_in_aabb_closed(aabb, p) ==
    /\ aabb.minx <= p[1] /\ p[1] <= aabb.maxx
    /\ aabb.miny <= p[2] /\ p[2] <= aabb.maxy
    /\ aabb.minz <= p[3] /\ p[3] <= aabb.maxz

point_in_aabb(aabb, p) ==
    /\ aabb.minx <= p[1] /\ p[1] < aabb.maxx
    /\ aabb.miny <= p[2] /\ p[2] < aabb.maxy
    /\ aabb.minz <= p[3] /\ p[3] < aabb.maxz

\* (mutant) the scan of a leaf goes on after the first member that contains p.
RECURSIVE LeafScanAll(_, _, _, _)
LeafScanAll(as, i, p, acc) ==
    IF i > Len(as) THEN acc
    ELSE LeafScanAll(as, i + 1, p,
            [found |-> IF point_in_aabb(as[i], p) THEN Append(acc.found, as[i].id)
                       ELSE acc.found,
             visited |-> acc.visited + 1])

\* The precise scan of a leaf: members are tested in order, each test counts
\* as a visit, and the scan stops at the first member that contains p.
RECURSIVE LeafScan(_, _, _, _)
LeafScan(as, i, p, acc) ==
    IF i > Len(as) THEN acc
    ELSE IF point_in_aabb(as[i], p)
         THEN [found |-> Append(acc.found, as[i].id), visited |-> acc.visited + 1]
         ELSE LeafScan(as, i + 1, p, [acc EXCEPT !.visited = @ + 1])

\* (mutant) on a double hit only the left child is entered.
DescendLeftOnly(left_hit, right_hit) ==
    IF left_hit THEN <<"left">> ELSE IF right_hit THEN <<"right">> ELSE << >>

\* Which children of an inner node the descent enters, in order.
Descend(left_hit, right_hit) ==
    IF left_hit /\ ~right_hit THEN <<"left">>
    ELSE IF right_hit /\ ~left_hit THEN <<"right">>
    ELSE IF left_hit /\ right_hit THEN <<"left", "right">>
    ELSE << >>

\* search_point(node, x, y, z, found, stats, precise); acc = [found, visited].
RECURSIVE search_point(_, _, _, _)
search_point(node, p, acc, precise) ==
    LET a1 == [acc EXCEPT !.visited = @ + 1] IN
    IF ~point_in_aabb(node.aabb, p) THEN a1
    ELSE IF node.is_leaf
    THEN IF precise /\ node.areas # << >>
         THEN LeafScan(node.areas, 1, p, a1)
         ELSE [a1 EXCEPT !.found = @ \o node.ids]
    ELSE LET l == The(node.left)
             r == The(node.right)
             left_hit == node.left # << >> /\ point_in_aabb(l.aabb, p)
             right_hit == node.right # << >> /\ point_in_aabb(r.aabb, p)
             order == Descend(left_hit, right_hit)
             a2 == IF Len(order) >= 1
                   THEN search_point(IF order[1] = "left" THEN l ELSE r, p, a1, precise)
                   ELSE a1
         IN  IF Len(order) = 2 THEN search_point(r, p, a2, precise) ELSE a2

NoHits == [found |-> << >>, visited |-> 0]

(***************************************************************************)
(* Inputs of the index: boxes on the lattice {0, 2, 4}, among them grid    *)
(* cells that share faces, a box overlapping them and a box stacked in z.  *)
(***************************************************************************)
BoxShapes ==
    { <<0, 0, 0, 2, 2, 2>>,     \* cell (0,0)
      <<2, 0, 0, 4, 2, 2>>,     \* cell (0,1), shares the face x = 2
      <<0, 2, 0, 2, 4, 2>>,     \* cell (1,0), shares the face y = 2
      <<0, 0, 0, 4, 4, 2>>,     \* overlaps all three cells
      <<0, 0, 2, 2, 2, 4>> }    \* stacked on cell (0,0) in z

MkBox(s, id) == AABB(s[1], s[2], s[3], s[4], s[5], s[6], id)

AreaLists ==
    UNION { { [i \in 1..n |-> MkBox(f[i], i)] : f \in [1..n -> BoxShapes] } : n \in 0..MaxAreas }

QueryPoints ==
    { <<x, y, z>> : x \in {1, 2, 3}, y \in {1, 3}, z \in {1, 3} } \cup { <<5, 1, 1>> }

\* No runtime callback runs in this specification.
NoRuntime ==
    /\ pc = "off" /\ env_dir = << >>
    /\ config = [parses |-> FALSE, robots |-> << >>]
    /\ pdu = "none" /\ drones = << >>
    /\ tick = 0 /\ poses = << >> /\ di = 0 /\ ticklog = << >>

\* No compiler runs in this specification.
NoBuilder ==
    /\ env_model = None /\ base_prop = None
    /\ b_areas = << >> /\ b_props = << >> /\ b_links = << >>
    /\ step = "none"
    /\ py_rng = 0 /\ np_rng = 0

\* The defaults of build_bvh's parameters, until a caller passes its own.
DefaultMaxDepth == 5
DefaultLeafCapacity == 1

InitBvh ==
    /\ areas \in AreaLists
    /\ max_depth = DefaultMaxDepth
    /\ leaf_capacity = DefaultLeafCapacity
    /\ NoBuilder /\ NoRuntime
    /\ links = << >> /\ properties = << >>
    /\ bvh_root = None
    /\ raised = ""
    /\ query = None /\ hits = << >> /\ visited = 0 /\ answer = None
    /\ files = None

\* What the caller's list holds after build_bvh: areas.sort() sorts it in
\* place when the root is split (the recursive calls work on slices).
SortedInPlace(as, maxd, cap) ==
    IF Len(as) <= cap \/ 0 >= maxd THEN as ELSE StableSortAsc(as, ArgMaxSpread(as))

\* build_bvh(areas, max_depth=..., leaf_capacity=...), called once by a
\* caller that keeps its list (fastsearch/test_search.py).
BuildBvh ==
    /\ bvh_root = None /\ raised = ""
    /\ \E d \in 0..MaxDepthB, c \in 1..MaxLeafCap :
          /\ max_depth' = d /\ leaf_capacity' = c
          /\ IF Len(areas) = 0
             THEN raised' = "ValueError" /\ UNCHANGED <<bvh_root, areas>>
             ELSE /\ bvh_root' = Some(build_bvh(areas, 0, d, c))
                  /\ areas' = SortedInPlace(areas, d, c)
                  /\ UNCHANGED raised
    /\ UNCHANGED <<rvars, links, properties, query, hits, visited, answer, files, cvars>>

\* search_point(root, x, y, z, precise=True) with fresh found and stats.
SearchPoint ==
    /\ bvh_root # None
    /\ \E p \in QueryPoints :
          LET r == search_point(The(bvh_root), p, NoHits, TRUE)
          IN  /\ query' = Some(p)
              /\ hits' = r.found
              /\ visited' = r.visited
    /\ UNCHANGED <<rvars, areas, links, properties, bvh_root, max_depth, leaf_capacity,
                   raised, answer, files, cvars>>

NextBvh == BuildBvh \/ SearchPoint

SpecBvh == InitBvh /\ [][NextBvh]_vars

(***************************************************************************)
(* Properties of the index.                                                *)
(***************************************************************************)
\* The member lists of the leaves of a tree, left to right.
RECURSIVE LeafLists(_)
LeafLists(node) ==
    IF node.is_leaf THEN <<node.areas>>
    ELSE LeafLists(The(node.left)) \o LeafLists(The(node.right))

StrictlyInside(a, p) ==
    /\ a.minx < p[1] /\ p[1] < a.maxx
    /\ a.miny < p[2] /\ p[2] < a.maxy
    /\ a.minz < p[3] /\ p[3] < a.maxz

InList(s, v) == \E i \in DOMAIN s : s[i] = v

\* C1 as claimed: after a precise search of p, the result holds the id of
\* every input AABB that has p strictly inside, overlapping inputs included.
C1_CompleteForAllInputs ==
    query # None =>
        \A i \in DOMAIN areas :
            StrictlyInside(areas[i], The(query)) => InList(hits, areas[i].id)

\* C1 (amended): completeness per leaf.  For every leaf that has a member
\* with p strictly inside, the result holds the id of the first member of
\* that leaf that contains p; so a.id is returned unless another member
\* containing p precedes a in a's own leaf.
C1_CompletePerLeaf ==
    (query # None /\ bvh_root # None) =>
        LET p == The(query)
            leaves == LeafLists(The(bvh_root))
        IN  \A k \in DOMAIN leaves :
              LET m == leaves[k] IN
              \A i \in DOMAIN m :
                 StrictlyInside(m[i], p) =>
                    \E f \in 1..i :
                       /\ point_in_aabb(m[f], p)
                       /\ \A j \in 1..(f - 1) : ~point_in_aabb(m[j], p)
                       /\ InList(hits, m[f].id)

\* C1 witness: p is strictly inside two members of one leaf and strictly
\* inside a member of another leaf; the search returned two ids.
C1_Witness ==
    /\ query # None /\ bvh_root # None
    /\ LET p == The(query)
           leaves == LeafLists(The(bvh_root))
       IN  /\ \E k \in DOMAIN leaves : \E i, j \in DOMAIN leaves[k] :
                 i < j /\ StrictlyInside(leaves[k][i], p) /\ StrictlyInside(leaves[k][j], p)
           /\ \E k1, k2 \in DOMAIN leaves :
                 /\ k1 # k2
                 /\ \E i \in DOMAIN leaves[k1] : StrictlyInside(leaves[k1][i], p)
                 /\ \E i \in DOMAIN leaves[k2] : StrictlyInside(leaves[k2][i], p)
    /\ Len(hits) = 2

(***************************************************************************)
(* fastsearch/envbuilder.py: the Environment facade.                       *)
(* A props dict is a record of its four optional keys; the empty dict {}   *)
(* has all four absent.  The tables are functions (Python dicts).          *)
(***************************************************************************)
Props(w, t, a, g) ==
    [wind_velocity |-> w, temperature |-> t, sea_level_atm |-> a, gps_strength |-> g]

EmptyProps == Props(None, None, None, None)

\* A dict filled by a loop of d[key] = value over a list: the last entry of
\* a key wins.  keys is the list of the entries' keys.
LastIndexOf(keys, k) ==
    CHOOSE i \in DOMAIN keys : keys[i] = k /\ \A j \in DOMAIN keys : keys[j] = k => j <= i

\* from_files: the AABB of each entry of area.json, in file order.
AreaList(area_json) ==
    [i \in DOMAIN area_json |->
        LET b == area_json[i].bounds
        IN  AABB(b[1], b[2], b[3], b[4], b[5], b[6], area_json[i].area_id)]

LinksMap(link_json) ==
    LET keys == [i \in DOMAIN link_json |-> link_json[i].area_id]
    IN  [k \in {keys[i] : i \in DOMAIN keys} |->
            link_json[LastIndexOf(keys, k)].area_property_id]

PropsMap(prop_json) ==
    LET keys == [i \in DOMAIN prop_json |-> prop_json[i].id]
    IN  [k \in {keys[i] : i \in DOMAIN keys} |->
            prop_json[LastIndexOf(keys, k)].properties]

\* find_area_ids_at: the precise search from the root.
find_area_ids_at(root, p) == search_point(root, p, NoHits, TRUE).found

\* find_primary_area_at: hits[0] if hits else None.
find_primary_area_at(root, p) ==
    LET h == find_area_ids_at(root, p) IN IF h # << >> THEN Some(h[1]) ELSE None

\* (mutant) a linked property whose dict is empty is reported as missing.
get_property_for_area_truthy(lnk, prp, area_id) ==
    IF area_id \notin DOMAIN lnk THEN None
    ELSE IF lnk[area_id] \notin DOMAIN prp THEN None
    ELSE IF prp[lnk[area_id]] = EmptyProps THEN None
    ELSE Some(prp[lnk[area_id]])

\* get_property_for_area: links.get, then properties.get; a record object is
\* always truthy, so "ap.props if ap else None" is None only for a missing ap.
get_property_for_area(lnk, prp, area_id) ==
    IF area_id \notin DOMAIN lnk THEN None
    ELSE IF lnk[area_id] \notin DOMAIN prp THEN None
    ELSE Some(prp[lnk[area_id]])

\* get_property_at: (None, None), or (aid, get_property_for_area(aid)).
get_property_at(root, lnk, prp, p) ==
    LET aid == find_primary_area_at(root, p)
    IN  IF aid = None THEN [aid |-> None, props |-> None]
        ELSE [aid |-> aid, props |-> get_property_for_area(lnk, prp, The(aid))]

\* (mutant) a property counts as referenced when its id is a key of links.
validate_integrity_keys(area_ids, lnk, prp) ==
    [areas_without_link |-> { aid \in area_ids : aid \notin DOMAIN lnk },
     links_to_missing_property |->
        { [area_id |-> aid, missing_property_id |-> lnk[aid]] :
             aid \in { a \in DOMAIN lnk : lnk[a] \notin DOMAIN prp } },
     properties_unreferenced |-> { pid \in DOMAIN prp : pid \notin DOMAIN lnk },
     links_to_missing_area |-> { aid \in DOMAIN lnk : aid \notin area_ids }]

\* validate_integrity on the tables of an Environment whose areas table has
\* the keys area_ids: the four report lists, as the sets of their entries.
validate_integrity(area_ids, lnk, prp) ==
    [areas_without_link |-> { aid \in area_ids : aid \notin DOMAIN lnk },
     links_to_missing_property |->
        { [area_id |-> aid, missing_property_id |-> lnk[aid]] :
             aid \in { a \in DOMAIN lnk : lnk[a] \notin DOMAIN prp } },
     properties_unreferenced |->
        { pid \in DOMAIN prp : pid \notin { lnk[a] : a \in DOMAIN lnk } },
     links_to_missing_area |-> { aid \in DOMAIN lnk : aid \notin area_ids }]

\* The keys of Environment.areas: the ids of the loaded areas.
AreaKeys(list) == { list[i].id : i \in DOMAIN list }

\* Environment.from_files(area, link, property, max_depth, leaf_capacity)
\* on the dataset on disk; build_bvh raises ValueError on an empty area list
\* and then no Environment exists.
LoadEnvironment ==
    /\ files # None /\ bvh_root = None /\ raised = ""
    /\ \E d \in 0..MaxDepthB, c \in 1..MaxLeafCap :
          LET f == The(files)
              list == AreaList(f.area)
          IN  /\ max_depth' = d /\ leaf_capacity' = c
              /\ IF Len(list) = 0
                 THEN /\ raised' = "ValueError"
                      /\ UNCHANGED <<areas, links, properties, bvh_root>>
                 ELSE /\ areas' = list
                      /\ bvh_root' = Some(build_bvh(list, 0, d, c))
                      /\ links' = LinksMap(f.link)
                      /\ properties' = PropsMap(f.property)
                      /\ UNCHANGED raised
    /\ UNCHANGED <<rvars, query, hits, visited, answer, files, cvars>>

EnvPoints ==
    { <<x, y, 1>> : x \in {1, 2, 3, 4}, y \in {1, 3} } \cup { <<1, 1, 2>>, <<5, 5, 5>> }

\* (mutant) a lookup that hits an area without a link records a link for it.
GetPropertyAtMemo ==
    /\ bvh_root # None
    /\ \E p \in EnvPoints :
          LET r == search_point(The(bvh_root), p, NoHits, TRUE)
              a == get_property_at(The(bvh_root), links, properties, p)
          IN  /\ query' = Some(p)
              /\ hits' = r.found
              /\ visited' = r.visited
              /\ answer' = Some(a)
              /\ links' = IF a.aid # None /\ The(a.aid) \notin DOMAIN links
                          THEN links @@ (The(a.aid) :> "")
                          ELSE links
    /\ UNCHANGED <<rvars, areas, properties, bvh_root, max_depth, leaf_capacity,
                   raised, files, cvars>>

\* env.get_property_at(x, y, z)
GetPropertyAt ==
    /\ bvh_root # None
    /\ \E p \in EnvPoints :
          LET r == search_point(The(bvh_root), p, NoHits, TRUE)
          IN  /\ query' = Some(p)
              /\ hits' = r.found
              /\ visited' = r.visited
              /\ answer' = Some(get_property_at(The(bvh_root), links, properties, p))
    /\ UNCHANGED <<rvars, areas, links, properties, bvh_root, max_depth, leaf_capacity,
                   raised, files, cvars>>

(***************************************************************************)
(* Datasets written by hand: up to two areas, links that may be missing,   *)
(* dangling or point at a missing property, and a property that is {}.     *)
(***************************************************************************)
HandAreaFiles ==
    LET shapes == { <<0, 0, 0, 2, 2, 2>>, <<2, 0, 0, 4, 2, 2>>, <<0, 0, 0, 4, 2, 2>> }
        ids == <<"a1", "a2">>
    IN  UNION { { [i \in 1..n |-> [area_id |-> ids[i], bounds |-> f[i]]] :
                  f \in [1..n -> shapes] } : n \in 0..2 }

SubSeqs(list) ==
    LET Pick(S) == [i \in 1..Cardinality(S) |->
                      list[CHOOSE k \in S : Cardinality({j \in S : j < k}) = i - 1]]
    IN  { Pick(S) : S \in SUBSET (DOMAIN list) }

HandLinkFiles ==
    { <<l1>> \o rest : l1 \in { [area_id |-> "a1", area_property_id |-> pid] : pid \in {"p1", "p2", "p9"} },
                       rest \in SubSeqs(<< [area_id |-> "a2", area_property_id |-> "p2"],
                                           [area_id |-> "zz", area_property_id |-> "p1"] >>) }
    \cup SubSeqs(<< [area_id |-> "a2", area_property_id |-> "p1"] >>)

HandPropFiles ==
    SubSeqs(<< [id |-> "p1", properties |-> Props(Some(<<1, 0, 0>>), Some(20), Some(1), Some(<<1, 1>>))],
               [id |-> "p2", properties |-> EmptyProps] >>)

InitEnv ==
    /\ files \in { Some([area |-> a, link |-> l, property |-> q]) :
                     a \in HandAreaFiles, l \in HandLinkFiles, q \in HandPropFiles }
    /\ max_depth = DefaultMaxDepth
    /\ leaf_capacity = DefaultLeafCapacity
    /\ NoBuilder /\ NoRuntime
    /\ areas = << >> /\ links = << >> /\ properties = << >>
    /\ bvh_root = None
    /\ raised = ""
    /\ query = None /\ hits = << >> /\ visited = 0 /\ answer = None

NextEnv == LoadEnvironment \/ GetPropertyAt

SpecEnv == InitEnv /\ [][NextEnv]_vars

\* C3: get_property_at never raises and has exactly three outcomes:
\* (None, None) when no area half-open-contains the point; (aid, None) when
\* the first hit has no link or its link names no property of the table;
\* (aid, properties[links[aid]].props) otherwise.
C3_ThreeOutcomes ==
    answer # None =>
        LET p == The(query)
            r == The(answer)
            covered == \E i \in DOMAIN areas : point_in_aabb(areas[i], p)
        IN  /\ raised = ""
            /\ ~covered => r = [aid |-> None, props |-> None]
            /\ covered =>
                 /\ hits # << >> /\ r.aid = Some(hits[1])
                 /\ \E i \in DOMAIN areas :
                       areas[i].id = hits[1] /\ point_in_aabb(areas[i], p)
                 /\ IF \/ hits[1] \notin DOMAIN links
                       \/ links[hits[1]] \notin DOMAIN properties
                    THEN r.props = None
                    ELSE r.props = Some(properties[links[hits[1]]])

\* C3 witness: all three outcomes have a reachable state; this one is the
\* (aid, props) outcome with a property whose dict is empty.
C3_Witness ==
    /\ answer # None
    /\ The(answer).aid # None
    /\ The(answer).props = Some(EmptyProps)

C3_WitnessNoProperty ==
    answer # None /\ The(answer).aid # None /\ The(answer).props = None

C3_WitnessNoArea ==
    answer # None /\ The(answer) = [aid |-> None, props |-> None]

(***************************************************************************)
(* Exact rationals <<num, den>>, den > 0, in lowest terms: the values of   *)
(* gps_strength and of the gps_* modifiers.                                *)
(***************************************************************************)
Abs(n) == IF n < 0 THEN -n ELSE n

RECURSIVE Gcd(_, _)
Gcd(a, b) == IF b = 0 THEN a ELSE Gcd(b, a % b)

Rat(n, d) ==
    LET g == Gcd(Abs(n), Abs(d))
        sg == IF d < 0 THEN -1 ELSE 1
    IN  <<(sg * n) \div g, (sg * d) \div g>>

RAdd(a, b) == Rat(a[1] * b[2] + b[1] * a[2], a[2] * b[2])
RMul(a, b) == Rat(a[1] * b[1], a[2] * b[2])
RLe(a, b) == a[1] * b[2] <= b[1] * a[2]
RMin(a, b) == IF RLe(a, b) THEN a ELSE b
RMax(a, b) == IF RLe(b, a) THEN a ELSE b
RZero == <<0, 1>>
ROne == <<1, 1>>

(***************************************************************************)
(* creator/zone.py: ZoneEffect.  The modes absolute, scale and add are     *)
(* modelled; any other mode string takes apply's final else branch.        *)
(***************************************************************************)
\* contains, at the centre of a cell given doubled (c2 = min + max):
\* circle: dx*dx + dy*dy <= r*r; rect: |dx| <= sx/2 and |dy| <= sy/2.
ZoneContains(z, c2) ==
    IF z.shape.kind = "circle"
    THEN LET dx2 == c2[1] - 2 * z.shape.center_m[1]
             dy2 == c2[2] - 2 * z.shape.center_m[2]
         IN  dx2 * dx2 + dy2 * dy2 <= 4 * z.shape.radius_m * z.shape.radius_m
    ELSE IF z.shape.kind = "rect"
    THEN /\ Abs(c2[1] - 2 * z.shape.center_m[1]) <= z.shape.size_m[1]
         /\ Abs(c2[2] - 2 * z.shape.center_m[2]) <= z.shape.size_m[2]
    ELSE FALSE

\* apply(wind_ms, pos_m) for the modes that depend on the wind alone; an
\* unknown mode leaves the wind as it is (no vortex zone is among the inputs).
ZoneApply(z, wind) ==
    IF z.effect.mode = "absolute" THEN z.effect.wind_ms
    ELSE IF z.effect.mode = "scale" THEN [k \in 1..3 |-> wind[k] * z.effect.scale]
    ELSE IF z.effect.mode = "add" THEN [k \in 1..3 |-> wind[k] + z.effect.add_ms[k]]
    ELSE wind

\* max(0.0, min(1.0, g))
Clamp01(g) == RMax(RZero, RMin(ROne, g))

\* (mutant) gps_scale is applied before gps_add.
ZoneApplyGpsScaleFirst(z, base) ==
    LET g1 == IF z.effect.gps_abs # None THEN The(z.effect.gps_abs) ELSE base
        g2 == IF z.effect.gps_scale # None THEN RMul(g1, The(z.effect.gps_scale)) ELSE g1
        g3 == IF z.effect.gps_add # None THEN RAdd(g2, The(z.effect.gps_add)) ELSE g2
    IN  Clamp01(g3)

\* (mutant) the value is clamped after every modifier.
ZoneApplyGpsClampEach(z, base) ==
    LET g1 == IF z.effect.gps_abs # None THEN Clamp01(The(z.effect.gps_abs)) ELSE base
        g2 == IF z.effect.gps_add # None THEN Clamp01(RAdd(g1, The(z.effect.gps_add))) ELSE g1
        g3 == IF z.effect.gps_scale # None THEN RMul(g2, The(z.effect.gps_scale)) ELSE g2
    IN  Clamp01(g3)

\* apply_gps(base, pos): gps_abs, then gps_add, then gps_scale, then clamp.
ZoneApplyGps(z, base) ==
    LET g1 == IF z.effect.gps_abs # None THEN The(z.effect.gps_abs) ELSE base
        g2 == IF z.effect.gps_add # None THEN RAdd(g1, The(z.effect.gps_add)) ELSE g1
        g3 == IF z.effect.gps_scale # None THEN RMul(g2, The(z.effect.gps_scale)) ELSE g2
    IN  Clamp01(g3)

(***************************************************************************)
(* creator/creator.py: CreatorBuilder                                      *)
(***************************************************************************)
\* build_base: the base record, with the defaults of the three .get calls
\* (wind is given as vector_ms).
DefaultTemperatureC == 20
DefaultPressureAtm == 1

OrElse(o, dflt) == IF o = None THEN dflt ELSE The(o)

BaseProp(base) ==
    Props(Some(base.wind),
          Some(OrElse(base.temperature_C, DefaultTemperatureC)),
          Some(OrElse(base.pressure_atm, DefaultPressureAtm)),
          Some(OrElse(base.gps_strength, ROne)))

\* f"area_{iy}_{ix}" and f"prop_{area_id}"
AreaId(iy, ix) == "area_" \o ToString(iy) \o "_" \o ToString(ix)
PropId(aid) == "prop_" \o aid

\* range(n) as a count: empty when n <= 0.
RangeLen(n) == IF n > 0 THEN n ELSE 0

\* (mutant) the cell counts are rounded up instead of down.
GridAreasRoundUp(grid) ==
    LET nx == RangeLen((grid.extent_m[1] + grid.cell_m[1] - 1) \div grid.cell_m[1])
        ny == RangeLen((grid.extent_m[2] + grid.cell_m[2] - 1) \div grid.cell_m[2])
        dx == grid.cell_m[1]
        dy == grid.cell_m[2]
    IN  [i \in 1..(nx * ny) |->
            LET ix == (i - 1) % nx
                iy == (i - 1) \div nx
            IN  [area_id |-> AreaId(iy, ix),
                 bounds |-> <<ix * dx, iy * dy, 0,
                              (ix + 1) * dx, (iy + 1) * dy, grid.extent_m[3]>>]]

\* build_grid: nx * ny cells, iy outer and ix inner, one layer in z.
GridAreas(grid) ==
    LET nx == RangeLen(grid.extent_m[1] \div grid.cell_m[1])
        ny == RangeLen(grid.extent_m[2] \div grid.cell_m[2])
        dx == grid.cell_m[1]
        dy == grid.cell_m[2]
    IN  [i \in 1..(nx * ny) |->
            LET ix == (i - 1) % nx
                iy == (i - 1) \div nx
            IN  [area_id |-> AreaId(iy, ix),
                 bounds |-> <<ix * dx, iy * dy, 0,
                              (ix + 1) * dx, (iy + 1) * dy, grid.extent_m[3]>>]]

\* _cell_center, doubled: (min + max) on x and y.
CellCenter2(bounds) == <<bounds[1] + bounds[4], bounds[2] + bounds[5]>>

\* env.get("zones", [])
ZoneDefs(env) == IF env.zones = None THEN << >> ELSE The(env.zones)

\* (mutant) sorted(zones, key=priority)[::-1]: descending, ties reversed.
ZonesSortedReversed(zs) ==
    LET Before(i, j) == \/ zs[i].priority > zs[j].priority
                        \/ (zs[i].priority = zs[j].priority /\ i > j)
        Rank(j) == Cardinality({i \in DOMAIN zs : Before(i, j)}) + 1
    IN  [p \in DOMAIN zs |-> zs[CHOOSE j \in DOMAIN zs : Rank(j) = p]]

\* sorted(zones, key=lambda z: z.priority, reverse=True): descending and
\* stable (zones of equal priority keep their order in the list).
ZonesSorted(zs) ==
    LET Before(i, j) == \/ zs[i].priority > zs[j].priority
                        \/ (zs[i].priority = zs[j].priority /\ i < j)
        Rank(j) == Cardinality({i \in DOMAIN zs : Before(i, j)}) + 1
    IN  [p \in DOMAIN zs |-> zs[CHOOSE j \in DOMAIN zs : Rank(j) = p]]

\* A pseudo-random generator: its state is a number below RngPeriod, seeding
\* sets the state from the seed, and each draw yields a value fixed by the
\* state and steps the state.
RngPeriod == 4

RngStates == 0..(RngPeriod - 1)

SeedState(seed) == seed % RngPeriod

Deviate(s) == (s % RngPeriod) - 1

\* np.random.normal(0, std, 3) on numpy's global generator in state s.
Normal3(s, std) ==
    [noise |-> <<std * Deviate(s), std * Deviate(s + 1), std * Deviate(s + 2)>>,
     rng |-> (s + 3) % RngPeriod]

\* ZoneEffect.__init__ of the zones k.. of the list, in list order: a
\* turbulence zone with a seed calls random.seed(seed) on Python's random
\* module; py is that module's generator state.
RECURSIVE SeedZones(_, _, _)
SeedZones(zone_defs, k, py) ==
    IF k > Len(zone_defs) THEN py
    ELSE SeedZones(zone_defs, k + 1,
                   IF /\ zone_defs[k].effect.mode = "turbulence"
                      /\ zone_defs[k].effect.turbulence.seed # None
                   THEN SeedState(The(zone_defs[k].effect.turbulence.seed))
                   ELSE py)

\* _apply_turbulence with numpy's global generator in state rng: type gauss
\* adds three draws of np.random.normal, an unknown type adds zeros and draws
\* nothing (perlin and ou, which scale by 0.5 and 0.15, are not among the
\* inputs).
apply_turbulence(z, wind, rng) ==
    LET tdef == z.effect.turbulence
        n == Normal3(rng, tdef.std_ms)
    IN  IF tdef.type = "gauss"
        THEN [wind |-> [k \in 1..3 |-> wind[k] + n.noise[k]], rng |-> n.rng]
        ELSE [wind |-> wind, rng |-> rng]

\* apply(wind_ms, pos_m), with the generator the turbulence mode draws from.
ZoneEffectApply(z, wind, rng) ==
    IF z.effect.mode = "turbulence" THEN apply_turbulence(z, wind, rng)
    ELSE [wind |-> ZoneApply(z, wind), rng |-> rng]

\* (mutant) every zone is applied, whether it contains the centre or not.
RECURSIVE ZoneLoopAll(_, _, _, _)
ZoneLoopAll(zs, k, c2, st) ==
    IF k > Len(zs) THEN st
    ELSE LET a == ZoneEffectApply(zs[k], st.wind, st.rng)
         IN  ZoneLoopAll(zs, k + 1, c2,
                         [wind |-> a.wind,
                          gps |-> ZoneApplyGps(zs[k], st.gps),
                          rng |-> a.rng])

\* The loop "for z in zones_sorted: if z.contains(pos): ..." from zone k on;
\* st = [wind, gps, rng].
RECURSIVE ZoneLoop(_, _, _, _)
ZoneLoop(zs, k, c2, st) ==
    IF k > Len(zs) THEN st
    ELSE IF ZoneContains(zs[k], c2)
         THEN LET a == ZoneEffectApply(zs[k], st.wind, st.rng)
              IN  ZoneLoop(zs, k + 1, c2,
                           [wind |-> a.wind,
                            gps |-> ZoneApplyGps(zs[k], st.gps),
                            rng |-> a.rng])
         ELSE ZoneLoop(zs, k + 1, c2, st)

\* The body of apply_zones' loop over zip(props, areas) for one pair, with
\* numpy's generator in state rng: the new property and the generator after.
ZonedProp(prop, area, zs, rng) ==
    LET st0 == [wind |-> The(prop.properties.wind_velocity),
                gps |-> OrElse(prop.properties.gps_strength, ROne),
                rng |-> rng]
        st == ZoneLoop(zs, 1, CellCenter2(area.bounds), st0)
    IN  [prop |-> [prop EXCEPT !.properties.wind_velocity = Some(st.wind),
                               !.properties.gps_strength = Some(st.gps)],
         rng |-> st.rng]

\* zip(self.props, self.areas) stops at the shorter list.
ZipLen(a, b) == Min2(Len(a), Len(b))

\* apply_zones' loop over zip(props, areas) from pair i on: the property
\* list and numpy's generator after it.
RECURSIVE ZoneCells(_, _, _, _, _)
ZoneCells(props, areas_, zs, i, rng) ==
    IF i > ZipLen(props, areas_) THEN [props |-> props, rng |-> rng]
    ELSE LET r == ZonedProp(props[i], areas_[i], zs, rng)
         IN  ZoneCells([props EXCEPT ![i] = r.prop], areas_, zs, i + 1, r.rng)

\* (mutant) every link names the property of the first area.
LinkOfFirst(all, a) ==
    [area_id |-> a.area_id, area_property_id |-> PropId(all[1].area_id)]

\* (mutant) the link names the area's id where the property id should be.
LinkOfAreaId(all, a) ==
    [area_id |-> a.area_id, area_property_id |-> a.area_id]

\* build_links: the link of one area.
LinkOf(all, a) ==
    [area_id |-> a.area_id, area_property_id |-> PropId(a.area_id)]

BuildBase ==
    /\ step = "new"
    /\ base_prop' = Some(BaseProp(The(env_model).base))
    /\ step' = "base"
    /\ UNCHANGED <<rvars, env_model, b_areas, b_props, b_links, fsvars, files,
                   py_rng, np_rng>>

\* A cell size of 0 makes extent // cell raise ZeroDivisionError.
BuildGrid ==
    /\ step = "base" /\ raised = ""
    /\ LET grid == The(env_model).grid
       IN  IF grid.cell_m[1] = 0 \/ grid.cell_m[2] = 0
           THEN /\ raised' = "ZeroDivisionError"
                /\ UNCHANGED <<b_areas, step>>
           ELSE /\ b_areas' = b_areas \o GridAreas(grid)
                /\ step' = "grid"
                /\ UNCHANGED raised
    /\ UNCHANGED <<rvars, env_model, base_prop, b_props, b_links, files,
                   py_rng, np_rng,
                   areas, links, properties, bvh_root, max_depth, leaf_capacity,
                   query, hits, visited, answer>>

BuildProperties ==
    /\ step = "grid"
    /\ b_props' = b_props \o
          [i \in DOMAIN b_areas |->
              [id |-> PropId(b_areas[i].area_id), properties |-> The(base_prop)]]
    /\ step' = "properties"
    /\ UNCHANGED <<rvars, env_model, base_prop, b_areas, b_links, fsvars, files,
                   py_rng, np_rng>>

\* apply_zones; main() skips the call under --no-zones.
ApplyZones ==
    /\ step = "properties"
    /\ LET zone_defs == ZoneDefs(The(env_model))
           zs == ZonesSorted(zone_defs)
           r == ZoneCells(b_props, b_areas, zs, 1, np_rng)
       IN  IF zone_defs = << >>
           THEN UNCHANGED <<b_props, py_rng, np_rng>>
           ELSE /\ py_rng' = SeedZones(zone_defs, 1, py_rng)
                /\ b_props' = r.props
                /\ np_rng' = r.rng
    /\ step' = "zones"
    /\ UNCHANGED <<rvars, env_model, base_prop, b_areas, b_links, fsvars, files>>

BuildLinks ==
    /\ step \in {"properties", "zones"}
    /\ b_links' = b_links \o [i \in DOMAIN b_areas |-> LinkOf(b_areas, b_areas[i])]
    /\ step' = "links"
    /\ UNCHANGED <<rvars, env_model, base_prop, b_areas, b_props, fsvars, files,
                   py_rng, np_rng>>

\* result() and main's three write_text calls.
WriteDataset ==
    /\ step = "links"
    /\ files' = Some([area |-> b_areas, link |-> b_links, property |-> b_props])
    /\ step' = "written"
    /\ UNCHANGED <<rvars, env_model, base_prop, b_areas, b_props, b_links, fsvars,
                   py_rng, np_rng>>

(***************************************************************************)
(* Scenes: a 2 x 2 grid, a 2 x 1 grid whose extent is not a multiple of    *)
(* the cell, a zero cell size and a negative extent; base GPS strengths    *)
(* absent, inside and above [0, 1]; zones over the cell centres.           *)
(***************************************************************************)
MaxZones == 2       \* longest zone list of a scene

Rect(c, sz) == [kind |-> "rect", center_m |-> c, radius_m |-> 0, size_m |-> sz]
Circle(c, r) == [kind |-> "circle", center_m |-> c, radius_m |-> r, size_m |-> <<0, 0>>]

Effect(mode, wind_ms, scale, add_ms, gabs, gadd, gscale) ==
    [mode |-> mode, wind_ms |-> wind_ms, scale |-> scale, add_ms |-> add_ms,
     gps_abs |-> gabs, gps_add |-> gadd, gps_scale |-> gscale]

Zone(name, shape, effect, priority) ==
    [name |-> name, shape |-> shape, effect |-> effect, priority |-> priority]

NoVec == <<0, 0, 0>>

ZoneCatalogue ==
    { Zone("Z1", Rect(<<1, 1>>, <<2, 2>>),
           Effect("scale", NoVec, 2, NoVec, None, None, Some(<<-1, 1>>)), 5),
      Zone("Z2", Rect(<<1, 1>>, <<2, 2>>),
           Effect("add", NoVec, 1, <<1, 1, 0>>, None, Some(<<1, 1>>), None), 10),
      Zone("Z3", Circle(<<1, 1>>, 1),
           Effect("absolute", <<0, 5, 0>>, 1, NoVec, None, None, None), 10),
      Zone("Z4", Rect(<<2, 2>>, <<4, 4>>),
           Effect("add", NoVec, 1, <<0, 1, 0>>, None, Some(<<1, 2>>), Some(<<1, 2>>)), 5),
      Zone("Z5", Rect(<<1, 1>>, <<2, 2>>),
           Effect("gps", NoVec, 1, NoVec, Some(<<1, 2>>), Some(<<1, 1>>), Some(<<1, 2>>)), 0) }

ZoneLists ==
    { None } \cup
    { Some(zl) : zl \in UNION { [1..n -> ZoneCatalogue] : n \in 0..MaxZones } }

Grids ==
    { [extent_m |-> <<4, 4, 2>>, cell_m |-> <<2, 2, 2>>],
      [extent_m |-> <<5, 2, 2>>, cell_m |-> <<2, 2, 2>>],
      [extent_m |-> <<4, 4, 2>>, cell_m |-> <<0, 2, 2>>],
      [extent_m |-> <<-4, 4, 2>>, cell_m |-> <<2, 2, 2>>] }

Bases ==
    { [wind |-> <<1, 0, 0>>, temperature_C |-> Some(15), pressure_atm |-> None,
       gps_strength |-> g] : g \in { None, Some(<<4, 5>>), Some(<<3, 2>>) } }

Scenes == { [base |-> b, grid |-> g, zones |-> z] : b \in Bases, g \in Grids, z \in ZoneLists }

InitCompile ==
    /\ env_model \in { Some(sc) : sc \in Scenes }
    /\ base_prop = None
    /\ b_areas = << >> /\ b_props = << >> /\ b_links = << >>
    /\ step = "new"
    /\ py_rng = 0 /\ np_rng = 0
    /\ NoRuntime
    /\ files = None
    /\ areas = << >> /\ links = << >> /\ properties = << >>
    /\ bvh_root = None
    /\ max_depth = DefaultMaxDepth
    /\ leaf_capacity = DefaultLeafCapacity
    /\ raised = ""
    /\ query = None /\ hits = << >> /\ visited = 0 /\ answer = None

NextCompile ==
    \/ BuildBase \/ BuildGrid \/ BuildProperties \/ ApplyZones \/ BuildLinks
    \/ WriteDataset \/ LoadEnvironment \/ GetPropertyAt

SpecCompile == InitCompile /\ [][NextCompile]_vars

(***************************************************************************)
(* Properties of the compiler and of lookups on its output.                *)
(***************************************************************************)
InsideBounds(b, p) ==
    /\ b[1] < p[1] /\ p[1] < b[4]
    /\ b[2] < p[2] /\ p[2] < b[5]
    /\ b[3] < p[3] /\ p[3] < b[6]

\* C2: on the compiler's own output, loaded with any max_depth and
\* leaf_capacity, get_property_at of a point strictly inside a grid cell
\* returns that cell's area id and the property record emitted for it.
C2_EndToEndLookup ==
    (answer # None /\ step = "written") =>
        \A i \in DOMAIN b_areas :
            InsideBounds(b_areas[i].bounds, The(query)) =>
                The(answer) = [aid |-> Some(b_areas[i].area_id),
                               props |-> Some(b_props[i].properties)]

\* C2 witness: a lookup inside the last cell of the 2 x 2 grid, with all four
\* cells in one leaf (max_depth 0), on a scene with zones.
C2_Witness ==
    /\ answer # None /\ step = "written" /\ Len(b_areas) = 4
    /\ ZoneDefs(The(env_model)) # << >>
    /\ max_depth = 0
    /\ The(answer).aid = Some("area_1_1")
    /\ The(answer).props # None
    /\ InsideBounds(b_areas[4].bounds, The(query))

InUnit(g) == RLe(RZero, g) /\ RLe(g, ROne)

\* C8 as claimed: every property record the compiler emits has
\* 0 <= gps_strength <= 1, whatever the base value and the zones.
C8_GpsClamp ==
    step \in {"links", "written"} =>
        \A i \in DOMAIN b_props : InUnit(The(b_props[i].properties.gps_strength))

\* The zones of a list in the order they are to be applied: by descending
\* priority, zones of equal priority in list order.
PriorityOrder(zs) ==
    CHOOSE ord \in [DOMAIN zs -> DOMAIN zs] :
        /\ \A a, b \in DOMAIN zs : a # b => ord[a] # ord[b]
        /\ \A a, b \in DOMAIN zs :
              a < b => \/ zs[ord[a]].priority > zs[ord[b]].priority
                       \/ /\ zs[ord[a]].priority = zs[ord[b]].priority
                          /\ ord[a] < ord[b]

\* The wind after the zones ord[k..] that contain the centre c2, each applied
\* to the result of the one before.
RECURSIVE WindChain(_, _, _, _, _)
WindChain(zs, ord, k, c2, w) ==
    IF k > Len(zs) THEN w
    ELSE WindChain(zs, ord, k + 1, c2,
                   IF ZoneContains(zs[ord[k]], c2) THEN ZoneApply(zs[ord[k]], w) ELSE w)

\* C9: after apply_zones, each cell's wind is the base wind run through the
\* zones containing the cell centre in descending priority, equal priorities
\* in list order, so that the lowest priority is applied last.
C9_PriorityOrder ==
    (step = "zones" /\ ZoneDefs(The(env_model)) # << >>) =>
        LET zs == ZoneDefs(The(env_model))
            ord == PriorityOrder(zs)
        IN  \A i \in DOMAIN b_props :
               The(b_props[i].properties.wind_velocity) =
                  WindChain(zs, ord, 1, CellCenter2(b_areas[i].bounds),
                            The(The(base_prop).wind_velocity))

\* C9 witness: the listed zone order is priority 5 Scale 2, then priority 10
\* Add [1,1,0]; on base [1,0,0] the first cell ends with [4,2,0].
C9_Witness ==
    /\ step = "zones" /\ b_props # << >>
    /\ LET zs == ZoneDefs(The(env_model))
       IN  /\ Len(zs) = 2
           /\ zs[1].priority = 5 /\ zs[1].effect.mode = "scale" /\ zs[1].effect.scale = 2
           /\ zs[2].priority = 10 /\ zs[2].effect.mode = "add"
           /\ zs[2].effect.add_ms = <<1, 1, 0>>
    /\ The(The(base_prop).wind_velocity) = <<1, 0, 0>>
    /\ The(b_props[1].properties.wind_velocity) = <<4, 2, 0>>

\* One zone's GPS effect as the claim states it: gps_abs, then gps_add, then
\* gps_scale, each if present, and one clamp to [0, 1] at the end.
GpsOfZone(z, g) ==
    LET a == IF z.effect.gps_abs = None THEN g ELSE The(z.effect.gps_abs)
        b == IF z.effect.gps_add = None THEN a ELSE RAdd(a, The(z.effect.gps_add))
        c == IF z.effect.gps_scale = None THEN b ELSE RMul(b, The(z.effect.gps_scale))
    IN  IF RLe(c, RZero) THEN RZero ELSE IF RLe(ROne, c) THEN ROne ELSE c

RECURSIVE GpsChain(_, _, _, _, _)
GpsChain(zs, ord, k, c2, g) ==
    IF k > Len(zs) THEN g
    ELSE GpsChain(zs, ord, k + 1, c2,
                  IF ZoneContains(zs[ord[k]], c2) THEN GpsOfZone(zs[ord[k]], g) ELSE g)

\* C10: after apply_zones, each cell's gps_strength is the base value run
\* through the containing zones, each zone replacing g by
\* clamp(scale(add(abs(g)))).
C10_GpsComposition ==
    (step = "zones" /\ ZoneDefs(The(env_model)) # << >>) =>
        LET zs == ZoneDefs(The(env_model))
            ord == PriorityOrder(zs)
        IN  \A i \in DOMAIN b_props :
               The(b_props[i].properties.gps_strength) =
                  GpsChain(zs, ord, 1, CellCenter2(b_areas[i].bounds),
                           The(The(base_prop).gps_strength))

\* C10 witness: base 0.8 and one zone with gps_add 0.5 and gps_scale 0.5
\* give (0.8 + 0.5) * 0.5 = 0.65 = 13/20.
C10_Witness ==
    /\ step = "zones" /\ b_props # << >>
    /\ LET zs == ZoneDefs(The(env_model))
       IN  /\ Len(zs) = 1
           /\ zs[1].effect.gps_abs = None
           /\ zs[1].effect.gps_add = Some(<<1, 2>>)
           /\ zs[1].effect.gps_scale = Some(<<1, 2>>)
    /\ The(The(base_prop).gps_strength) = <<4, 5>>
    /\ The(b_props[1].properties.gps_strength) = <<13, 20>>

(***************************************************************************)
(* asset/env_runtime.py, asset/drone_manager.py, asset/drone_io.py and     *)
(* envasset.py: the runtime callback.  hakopy (the tick source) and        *)
(* PduManager (the transport) are outside the repository: what they return *)
(* or raise is an input of each step.                                      *)
(***************************************************************************)
MaxDrones == 2      \* longest robot list of a transport configuration
MaxTicks == 2       \* ticks the tick source grants before end-of-stream

\* EnvRuntime.init's arguments in on_manual_timing_control.
RuntimeDepth == 8
RuntimeLeafCapacity == 1

POS_ORG == "pos"
DISTURB_ORG == "disturb"

\* (mutant) the last candidate that exists is taken.
ff_last(dir, cands) ==
    IF \E i \in DOMAIN cands : cands[i] \in DOMAIN dir
    THEN Some(cands[CHOOSE i \in DOMAIN cands :
                      /\ cands[i] \in DOMAIN dir
                      /\ \A j \in DOMAIN cands : cands[j] \in DOMAIN dir => j <= i])
    ELSE None

\* _find_env_files.ff: the first candidate that exists in the directory.
ff(dir, cands) ==
    IF \E i \in DOMAIN cands : cands[i] \in DOMAIN dir
    THEN Some(cands[CHOOSE i \in DOMAIN cands :
                      /\ cands[i] \in DOMAIN dir
                      /\ \A j \in DOMAIN cands : cands[j] \in DOMAIN dir => i <= j])
    ELSE None

\* The file names _find_env_files tries for each file, in this order.
AreaCandidates == <<"area.json">>
LinkCandidates == <<"link.json", "area_link.json">>
PropCandidates == <<"property.json", "area_property.json">>

\* _find_env_files: the three paths, None where no candidate exists.
find_env_files(dir) ==
    [area |-> ff(dir, AreaCandidates),
     link |-> ff(dir, LinkCandidates),
     prop |-> ff(dir, PropCandidates)]

\* DroneManager.from_config: one DroneIO per robot that has a name, in file
\* order; a missing pos reader or disturb writer is only warned about.
DroneIO(name) == [name |-> name, pos_org |-> POS_ORG, disturb_org |-> DISTURB_ORG]

\* (mutant) a robot without the pos reader or the disturb writer is left out.
from_config_checked(robots) ==
    LET Complete(rob) == /\ rob.name # ""
                         /\ POS_ORG \in rob.shm_pdu_readers
                         /\ DISTURB_ORG \in rob.shm_pdu_writers
        kept == SelectSeq(robots, Complete)
    IN  [i \in DOMAIN kept |-> DroneIO(kept[i].name)]

RECURSIVE from_config(_)
from_config(robots) ==
    IF robots = << >> THEN << >>
    ELSE LET rob == Head(robots)
         IN  IF rob.name = "" THEN from_config(Tail(robots))
             ELSE <<DroneIO(rob.name)>> \o from_config(Tail(robots))

\* The raw content of a pos channel: nothing, bytes that pdu_to_py_Twist
\* rejects, or an encoded Twist with this linear part.
RawAbsent == [kind |-> "absent", linear |-> <<0, 0, 0>>]
RawGarbage == [kind |-> "garbage", linear |-> <<0, 0, 0>>]
RawTwist(p) == [kind |-> "twist", linear |-> p]

\* (mutant) undecodable bytes are read as the zero Twist.
read_pose_default(raw) ==
    IF raw.kind = "absent" THEN None ELSE Some(raw.linear)

\* DroneIO.read_pose: None for no data and for a failed deserialisation.
read_pose(raw) ==
    IF raw.kind = "absent" THEN None
    ELSE IF raw.kind = "garbage" THEN None
    ELSE Some(raw.linear)

Disturbance(w, t, a) == [wind |-> w, temp |-> t, atm |-> a]

ZeroDisturbance == Disturbance(<<0, 0, 0>>, 0, 0)

\* DroneIO.make_disturbance: zeros for None and for {}; otherwise each field
\* the dict holds, the wind only when it has at least three components.
make_disturbance(props) ==
    IF props = None \/ The(props) = EmptyProps THEN ZeroDisturbance
    ELSE LET q == The(props)
             wind == q.wind_velocity
         IN  Disturbance(
                IF wind # None /\ Len(The(wind)) >= 3
                THEN <<The(wind)[1], The(wind)[2], The(wind)[3]>>
                ELSE <<0, 0, 0>>,
                IF q.temperature # None THEN The(q.temperature) ELSE 0,
                IF q.sea_level_atm # None THEN The(q.sea_level_atm) ELSE 0)

\* DroneIO.write_disturbance, given whether py_to_pdu_Disturbance succeeds
\* and what flush_pdu_raw_data_nowait does ("true", "false" or "raise"):
\* what the method returns ("raise" when it raises), and whether the
\* transport's flush was called.
write_disturbance(ser_ok, flush) ==
    IF ~ser_ok THEN [ret |-> "False", flushed |-> FALSE]
    ELSE IF flush = "true" THEN [ret |-> "True", flushed |-> TRUE]
    ELSE IF flush = "false" THEN [ret |-> "False", flushed |-> TRUE]
    ELSE [ret |-> "raise", flushed |-> TRUE]

FlushOutcomes == {"true", "false", "raise"}

\* One call of the tick, as the log keeps it.
Ev(op, k, pose, dist, ret) ==
    [op |-> op, drone |-> k, pose |-> pose, dist |-> dist, ret |-> ret]

\* EnvRuntime.init(config_path, area_config_dir, depth=8, leaf_capacity=1):
\* resolve the three files, load the Environment, then initialise and start
\* the transport.  A missing file and an empty area list raise before the
\* transport exists.
RuntimeInit ==
    /\ pc = "start"
    /\ LET found == find_env_files(env_dir)
       IN  IF found.area = None \/ found.link = None \/ found.prop = None
           THEN /\ raised' = "FileNotFoundError" /\ pc' = "raised"
                /\ UNCHANGED <<areas, links, properties, bvh_root,
                               max_depth, leaf_capacity, pdu>>
           ELSE LET list == AreaList(env_dir[The(found.area)])
                IN  /\ max_depth' = RuntimeDepth
                    /\ leaf_capacity' = RuntimeLeafCapacity
                    /\ IF Len(list) = 0
                       THEN /\ raised' = "ValueError" /\ pc' = "raised"
                            /\ UNCHANGED <<areas, links, properties, bvh_root, pdu>>
                       ELSE /\ areas' = list
                            /\ bvh_root' = Some(build_bvh(list, 0, RuntimeDepth,
                                                          RuntimeLeafCapacity))
                            /\ links' = LinksMap(env_dir[The(found.link)])
                            /\ properties' = PropsMap(env_dir[The(found.prop)])
                            /\ pdu' = "started"
                            /\ pc' = "roster"
                            /\ UNCHANGED raised
    /\ UNCHANGED <<query, hits, visited, answer, files, cvars,
                   env_dir, config, drones, tick, poses, di, ticklog>>

\* manager = DroneManager.from_config(config_path); json.load raises on a
\* file that is not JSON, and nothing around the call catches it.
FromConfig ==
    /\ pc = "roster"
    /\ IF config.parses
       THEN /\ drones' = from_config(config.robots)
            /\ pc' = "sleep"
            /\ UNCHANGED raised
       ELSE /\ raised' = "JSONDecodeError" /\ pc' = "raised"
            /\ UNCHANGED drones
    /\ UNCHANGED <<areas, links, properties, bvh_root, max_depth, leaf_capacity,
                   query, hits, visited, answer, files, cvars,
                   env_dir, config, pdu, tick, poses, di, ticklog>>

\* What the pos channels may hold when a tick starts.
RuntimePoints == { <<1, 1, 1>>, <<3, 1, 1>>, <<1, 3, 1>>, <<3, 3, 1>>, <<100, 100, 100>> }

RawPoses == { RawAbsent, RawGarbage } \cup { RawTwist(p) : p \in RuntimePoints }

\* (mutant) the next tick is taken while the for loop is still under way.
TickEarly ==
    /\ pc \in {"sleep", "loop"} /\ tick < MaxTicks
    /\ tick' = tick + 1
    /\ poses' \in [DOMAIN drones -> RawPoses]
    /\ ticklog' = << Ev("run_nowait", 0, None, None, "") >>
    /\ di' = 1
    /\ pc' = IF drones = << >> THEN "sleep" ELSE "loop"
    /\ UNCHANGED <<fsvars, files, cvars, env_dir, config, pdu, drones>>

\* The head of one loop iteration: my_sleep() grants the tick, then
\* runtime.pdu.run_nowait() drains the inbound messages, which fixes what
\* each pos channel holds for this tick; the for loop starts at the first
\* drone (and is over at once on an empty roster).
Tick ==
    /\ pc = "sleep" /\ tick < MaxTicks
    /\ tick' = tick + 1
    /\ poses' \in [DOMAIN drones -> RawPoses]
    /\ ticklog' = << Ev("run_nowait", 0, None, None, "") >>
    /\ di' = 1
    /\ pc' = IF drones = << >> THEN "sleep" ELSE "loop"
    /\ UNCHANGED <<fsvars, files, cvars, env_dir, config, pdu, drones>>

\* my_sleep() returns False: break, return 0.
EndOfStream ==
    /\ pc = "sleep"
    /\ pc' = "returned"
    /\ UNCHANGED <<fsvars, files, cvars, env_dir, config, pdu, drones,
                   tick, poses, di, ticklog>>

\* (mutant) a write the transport refused is tried once more in the pass.
ServeLogRetry(k, p, r, d, w) ==
    << Ev("read_pose", k, Some(p), None, "pose"),
       Ev("get_property_at", k, Some(p), None, IF r.aid = None THEN "" ELSE The(r.aid)),
       Ev("write_disturbance", k, Some(p), Some(d), w.ret) >>
    \o (IF w.flushed THEN << Ev("flush", k, Some(p), Some(d), w.ret) >> ELSE << >>)
    \o (IF w.flushed /\ w.ret = "False"
        THEN << Ev("flush", k, Some(p), Some(d), w.ret) >> ELSE << >>)
    \o (IF w.ret = "False" THEN << Ev("warn", k, Some(p), Some(d), "") >> ELSE << >>)

\* The calls of one pass of the for loop for a drone whose pose was read.
ServeLog(k, p, r, d, w) ==
    << Ev("read_pose", k, Some(p), None, "pose"),
       Ev("get_property_at", k, Some(p), None, IF r.aid = None THEN "" ELSE The(r.aid)),
       Ev("write_disturbance", k, Some(p), Some(d), w.ret) >>
    \o (IF w.flushed THEN << Ev("flush", k, Some(p), Some(d), w.ret) >> ELSE << >>)
    \o (IF w.ret = "False" THEN << Ev("warn", k, Some(p), Some(d), "") >> ELSE << >>)

\* One pass of "for d in manager.drones": read_pose, continue on None;
\* otherwise get_property_at, make_disturbance, write_disturbance and the
\* warning on a False return.  An exception of write_disturbance leaves the
\* loop and the callback.
ProcessDrone ==
    /\ pc = "loop" /\ di \in DOMAIN drones
    /\ LET pose == read_pose(poses[di])
           next == IF di = Len(drones) THEN "sleep" ELSE "loop"
       IN  IF pose = None
           THEN /\ ticklog' = Append(ticklog, Ev("read_pose", di, None, None, "None"))
                /\ di' = di + 1 /\ pc' = next
                /\ UNCHANGED raised
           ELSE \E ser_ok \in BOOLEAN, flush \in FlushOutcomes :
                   LET r == get_property_at(The(bvh_root), links, properties, The(pose))
                       d == make_disturbance(r.props)
                       w == write_disturbance(ser_ok, flush)
                   IN  /\ ticklog' = ticklog \o ServeLog(di, The(pose), r, d, w)
                       /\ IF w.ret = "raise"
                          THEN /\ raised' = "Exception" /\ pc' = "raised"
                               /\ UNCHANGED di
                          ELSE /\ di' = di + 1 /\ pc' = next
                               /\ UNCHANGED raised
    /\ UNCHANGED <<areas, links, properties, bvh_root, max_depth, leaf_capacity,
                   query, hits, visited, answer, files, cvars,
                   env_dir, config, pdu, drones, tick, poses>>

(***************************************************************************)
(* Runtime inputs.  The dataset has four cells: a1 linked to a full        *)
(* property, a2 without a link, a3 linked to a property that does not      *)
(* exist, a4 linked to a property without temperature and with a wind of   *)
(* two components.  The directories hold the three files, lack a file, or  *)
(* hold an empty area list.                                                *)
(***************************************************************************)
RuntimeAreaFile ==
    << [area_id |-> "a1", bounds |-> <<0, 0, 0, 2, 2, 2>>],
       [area_id |-> "a2", bounds |-> <<2, 0, 0, 4, 2, 2>>],
       [area_id |-> "a3", bounds |-> <<0, 2, 0, 2, 4, 2>>],
       [area_id |-> "a4", bounds |-> <<2, 2, 0, 4, 4, 2>>] >>

RuntimeLinkFile ==
    << [area_id |-> "a1", area_property_id |-> "p1"],
       [area_id |-> "a3", area_property_id |-> "p9"],
       [area_id |-> "a4", area_property_id |-> "p4"] >>

RuntimePropFile ==
    << [id |-> "p1", properties |-> Props(Some(<<1, 2, 3>>), Some(20), Some(1), Some(<<1, 1>>))],
       [id |-> "p4", properties |-> Props(Some(<<7, 7>>), None, Some(2), None)] >>

EnvDirs ==
    { ("area.json" :> RuntimeAreaFile) @@ ("link.json" :> RuntimeLinkFile)
         @@ ("property.json" :> RuntimePropFile),
      ("area.json" :> RuntimeAreaFile) @@ ("area_link.json" :> RuntimeLinkFile),
      ("area.json" :> << >>) @@ ("link.json" :> RuntimeLinkFile)
         @@ ("property.json" :> RuntimePropFile) }

Robot(name, readers, writers) ==
    [name |-> name, shm_pdu_readers |-> readers, shm_pdu_writers |-> writers]

DroneName(i) == "Drone" \o ToString(i)

\* Rosters of 0..MaxDrones complete robots, a roster with a robot without
\* the pos reader, a nameless robot and a robot without the disturb writer,
\* and a file that is not JSON.
Configs ==
    { [parses |-> TRUE,
       robots |-> [i \in 1..n |-> Robot(DroneName(i), {POS_ORG}, {DISTURB_ORG})]] :
         n \in 0..MaxDrones }
    \cup { [parses |-> TRUE,
            robots |-> << Robot("Drone8", {}, {DISTURB_ORG}),
                          Robot("", {POS_ORG}, {DISTURB_ORG}),
                          Robot("Drone9", {POS_ORG}, {}) >>],
           [parses |-> FALSE, robots |-> << >>] }

InitRuntime ==
    /\ pc = "start"
    /\ env_dir \in EnvDirs
    /\ config \in Configs
    /\ pdu = "none" /\ drones = << >>
    /\ tick = 0 /\ poses = << >> /\ di = 0 /\ ticklog = << >>
    /\ NoBuilder
    /\ files = None
    /\ areas = << >> /\ links = << >> /\ properties = << >>
    /\ bvh_root = None
    /\ max_depth = DefaultMaxDepth
    /\ leaf_capacity = DefaultLeafCapacity
    /\ raised = ""
    /\ query = None /\ hits = << >> /\ visited = 0 /\ answer = None

NextRuntime == RuntimeInit \/ FromConfig \/ Tick \/ EndOfStream \/ ProcessDrone

SpecRuntime == InitRuntime /\ [][NextRuntime]_vars

(***************************************************************************)
(* Claims about the runtime loop (SpecRuntime).                            *)
(***************************************************************************)
\* A tick is over: the for loop ran to its end, or the callback ended.
TickOver == tick >= 1 /\ pc \in {"sleep", "returned", "raised"}

Readable(raw) == raw.kind = "twist"

\* The positions in this tick's log of the calls op made for drone k.
CallsOf(op, k) ==
    { i \in DOMAIN ticklog : ticklog[i].op = op /\ ticklog[i].drone = k }

\* The property of the position p by the dataset's tables, without the
\* index: None unless p is inside an area whose link names a property.
LinkedProps(p) ==
    LET inside == { i \in DOMAIN areas : StrictlyInside(areas[i], p) }
        linked == { i \in inside : /\ areas[i].id \in DOMAIN links
                                   /\ links[areas[i].id] \in DOMAIN properties }
    IN  IF linked = {} THEN None
        ELSE Some(properties[links[areas[CHOOSE i \in linked : TRUE].id]])

\* Disturbance d is the one the position p calls for: the fields of the
\* linked property (0 for a field the property lacks), zeros on a miss.
Carries(d, p) ==
    LET q == LinkedProps(p)
    IN  IF q = None THEN d = ZeroDisturbance
        ELSE /\ d.wind = IF The(q).wind_velocity # None /\ Len(The(The(q).wind_velocity)) = 3
                         THEN The(The(q).wind_velocity) ELSE <<0, 0, 0>>
             /\ d.temp = OrElse(The(q).temperature, 0)
             /\ d.atm = OrElse(The(q).sea_level_atm, 0)

\* C4: when a tick is over, every drone whose pos channel held a decodable
\* pose in that tick has exactly one write_disturbance call in the tick, and
\* that call's disturbance carries the linked property's wind, temperature
\* and sea_level_atm, or zeros when the position has no property.
C4_OneDisturbancePerReadableDrone ==
    TickOver =>
       \A k \in DOMAIN drones :
          Readable(poses[k]) =>
             /\ Cardinality(CallsOf("write_disturbance", k)) = 1
             /\ \A i \in CallsOf("write_disturbance", k) :
                   Carries(The(ticklog[i].dist), poses[k].linear)

\* C4, the part the loop keeps: every drone the for loop has got to and
\* whose pose it read has exactly one write_disturbance call in the tick,
\* with the disturbance its position calls for, and a miss alone neither
\* raises nor warns.
C4_DisturbanceOfEachServedDrone ==
    tick >= 1 =>
       \A k \in DOMAIN drones :
          (Readable(poses[k]) /\ (k < di \/ (k = di /\ pc = "raised"))) =>
             /\ Cardinality(CallsOf("write_disturbance", k)) = 1
             /\ \A i \in CallsOf("write_disturbance", k) :
                   /\ Carries(The(ticklog[i].dist), poses[k].linear)
                   /\ ticklog[i].ret = "True" => CallsOf("warn", k) = {}

\* C5: once ticks are granted the callback never ends by an exception: no
\* failure while one drone is processed ends the loop.
C5_LoopSurvivesDroneErrors == tick >= 1 => pc # "raised"

\* C6: whenever the callback has ended after the transport was started, the
\* transport has been stopped.
C6_TransportReleasedOnExit ==
    (pc \in {"returned", "raised"} /\ pdu # "none") => pdu = "stopped"

C7_WitnessAbsent ==
    /\ pc = "sleep" /\ tick >= 1 /\ Len(drones) = 2
    /\ poses[1].kind = "absent"
    /\ CallsOf("write_disturbance", 1) = {}
    /\ CallsOf("write_disturbance", 2) # {}

(***************************************************************************)
(* Claims about the compiler, continued (SpecCompile).                     *)
(***************************************************************************)
\* What the scene format rules out: a negative extent, a cell size that is
\* not positive, a zone shape other than circle and rect, an effect mode
\* other than the five of ZoneEffect.apply.
KnownShapes == {"circle", "rect"}
KnownModes == {"absolute", "scale", "add", "vortex", "turbulence"}

Malformed(sc) ==
    \/ \E k \in 1..3 : sc.grid.extent_m[k] < 0
    \/ \E k \in 1..3 : sc.grid.cell_m[k] <= 0
    \/ \E i \in DOMAIN ZoneDefs(sc) :
          \/ ZoneDefs(sc)[i].shape.kind \notin KnownShapes
          \/ ZoneDefs(sc)[i].effect.mode \notin KnownModes

\* C11: the compilation of a malformed scene never gets to write its
\* tables, and when its pipeline has gone past build_grid and apply_zones
\* without them an error has been raised.
C11_MalformedScenesAbort ==
    (env_model # None /\ Malformed(The(env_model))) =>
        /\ files = None
        /\ step \in {"links", "written"} => raised # ""

(***************************************************************************)
(* Scenes with turbulence zones, compiled in a process whose two           *)
(* generators are in any state: a 2 x 2 grid, a seeded gauss zone over the *)
(* whole grid, a seeded gauss zone over the first cell, a zone of an       *)
(* unknown noise type and an add zone.                                     *)
(***************************************************************************)
Turbulence(seed, std_ms, type) ==
    Effect("turbulence", NoVec, 1, NoVec, None, None, None)
       @@ [turbulence |-> [seed |-> seed, std_ms |-> std_ms, type |-> type]]

TurbulenceCatalogue ==
    { Zone("T1", Rect(<<2, 2>>, <<4, 4>>), Turbulence(Some(7), 1, "gauss"), 5),
      Zone("T2", Circle(<<1, 1>>, 1), Turbulence(Some(2), 2, "gauss"), 10),
      Zone("T3", Rect(<<2, 2>>, <<4, 4>>), Turbulence(Some(1), 1, "none"), 0),
      Zone("Z2", Rect(<<1, 1>>, <<2, 2>>),
           Effect("add", NoVec, 1, <<1, 1, 0>>, None, Some(<<1, 1>>), None), 10) }

TurbulenceScenes ==
    { [base |-> [wind |-> <<1, 0, 0>>, temperature_C |-> Some(15),
                 pressure_atm |-> None, gps_strength |-> None],
       grid |-> [extent_m |-> <<4, 4, 2>>, cell_m |-> <<2, 2, 2>>],
       zones |-> Some(zl)] :
         zl \in UNION { [1..n -> TurbulenceCatalogue] : n \in 1..MaxZones } }

InitTurbulence ==
    /\ env_model \in { Some(sc) : sc \in TurbulenceScenes }
    /\ py_rng \in RngStates /\ np_rng \in RngStates
    /\ base_prop = None
    /\ b_areas = << >> /\ b_props = << >> /\ b_links = << >>
    /\ step = "new"
    /\ NoRuntime
    /\ files = None
    /\ areas = << >> /\ links = << >> /\ properties = << >>
    /\ bvh_root = None
    /\ max_depth = DefaultMaxDepth
    /\ leaf_capacity = DefaultLeafCapacity
    /\ raised = ""
    /\ query = None /\ hits = << >> /\ visited = 0 /\ answer = None

SpecTurbulence == InitTurbulence /\ [][NextCompile]_vars

\* The wind_velocity column that compiling the scene of this run gives when
\* numpy's generator starts in state np.
WindsFrom(np) ==
    LET zs == ZonesSorted(ZoneDefs(The(env_model)))
        fresh == [i \in DOMAIN b_areas |->
                    [id |-> PropId(b_areas[i].area_id), properties |-> The(base_prop)]]
        out == ZoneCells(fresh, b_areas, zs, 1, np).props
    IN  [i \in DOMAIN out |-> out[i].properties.wind_velocity]

AllSeeded(zone_defs) ==
    \A k \in DOMAIN zone_defs :
       zone_defs[k].effect.mode = "turbulence" => zone_defs[k].effect.turbulence.seed # None

\* C12: when every turbulence zone of the scene has a seed, the winds that
\* apply_zones has written are the winds of the same compilation started
\* with numpy's generator in any other state.
C12_SeedHonored ==
    (step = "zones" /\ AllSeeded(ZoneDefs(The(env_model)))) =>
        \A np \in RngStates :
           WindsFrom(np) = [i \in DOMAIN b_props |-> b_props[i].properties.wind_velocity]

(***************************************************************************)
(* Scenes without zones over every grid of positive extent and cell size   *)
(* up to the bounds, the extent a multiple of the cell or not and smaller  *)
(* than the cell or not.                                                   *)
(***************************************************************************)
MaxExtent == 4      \* largest extent_m on x and y
MaxCell == 2        \* largest cell_m on x and y

PositiveGrids ==
    { [extent_m |-> <<ex, ey, 2>>, cell_m |-> <<dx, dy, 2>>] :
         ex \in 1..MaxExtent, ey \in 1..MaxExtent, dx \in 1..MaxCell, dy \in 1..MaxCell }

GridScenes ==
    { [base |-> [wind |-> <<1, 0, 0>>, temperature_C |-> None,
                 pressure_atm |-> None, gps_strength |-> None],
       grid |-> g, zones |-> None] : g \in PositiveGrids }

InitGrid ==
    /\ env_model \in { Some(sc) : sc \in GridScenes }
    /\ py_rng = 0 /\ np_rng = 0
    /\ base_prop = None
    /\ b_areas = << >> /\ b_props = << >> /\ b_links = << >>
    /\ step = "new"
    /\ NoRuntime
    /\ files = None
    /\ areas = << >> /\ links = << >> /\ properties = << >>
    /\ bvh_root = None
    /\ max_depth = DefaultMaxDepth
    /\ leaf_capacity = DefaultLeafCapacity
    /\ raised = ""
    /\ query = None /\ hits = << >> /\ visited = 0 /\ answer = None

SpecGrid == InitGrid /\ [][NextCompile]_vars

\* Coordinates are sampled at the half units: q stands for q / 2.
ClosedIn2(b, q) ==
    /\ 2 * b[1] <= q[1] /\ q[1] <= 2 * b[4]
    /\ 2 * b[2] <= q[2] /\ q[2] <= 2 * b[5]
    /\ 2 * b[3] <= q[3] /\ q[3] <= 2 * b[6]

HalfOpenIn2(b, q) ==
    /\ 2 * b[1] <= q[1] /\ q[1] < 2 * b[4]
    /\ 2 * b[2] <= q[2] /\ q[2] < 2 * b[5]
    /\ 2 * b[3] <= q[3] /\ q[3] < 2 * b[6]

InteriorsMeet(a, b) ==
    /\ Max2(a[1], b[1]) < Min2(a[4], b[4])
    /\ Max2(a[2], b[2]) < Min2(a[5], b[5])
    /\ Max2(a[3], b[3]) < Min2(a[6], b[6])

\* C13: for a grid of positive extent and cell size, when build_grid has
\* returned the builder holds exactly floor(Ex/dx) * floor(Ey/dy) areas,
\* their ids are the distinct area_{iy}_{ix}, the union of their bounds is the truncated extent
\* [0, nx*dx] x [0, ny*dy] x [0, Ez], no two of them overlap inside, and
\* every point is half-open-contained in at most one of them.
C13_GridCoverage ==
    step = "grid" =>
        LET grid == The(env_model).grid
            ex == grid.extent_m[1]
            ey == grid.extent_m[2]
            ez == grid.extent_m[3]
            dx == grid.cell_m[1]
            dy == grid.cell_m[2]
            nx == ex \div dx
            ny == ey \div dy
            box == <<0, 0, 0, nx * dx, ny * dy, ez>>
            samples == { <<qx, qy, qz>> : qx \in (-1)..(2 * ex + 1),
                                          qy \in (-1)..(2 * ey + 1),
                                          qz \in (-1)..(2 * ez + 1) }
        IN  (\A k \in 1..3 : grid.extent_m[k] > 0 /\ grid.cell_m[k] > 0) =>
              /\ Len(b_areas) = nx * ny
              /\ \A i, j \in DOMAIN b_areas :
                    i # j => b_areas[i].area_id # b_areas[j].area_id
              /\ { b_areas[i].area_id : i \in DOMAIN b_areas } =
                    { AreaId(iy, ix) : iy \in 0..(ny - 1), ix \in 0..(nx - 1) }
              /\ \A q \in samples :
                    (nx * ny > 0 /\ ClosedIn2(box, q)) <=>
                        \E i \in DOMAIN b_areas : ClosedIn2(b_areas[i].bounds, q)
              /\ \A i, j \in DOMAIN b_areas :
                    i # j => ~InteriorsMeet(b_areas[i].bounds, b_areas[j].bounds)
              /\ \A q \in samples :
                    Cardinality({ i \in DOMAIN b_areas :
                                    HalfOpenIn2(b_areas[i].bounds, q) }) <= 1

\* C13 witness: an extent of 3 x 4 cut into cells of 2 x 2 gives 1 x 2
\* areas, the extent being truncated to 2 on x.
C13_Witness ==
    /\ step = "grid"
    /\ The(env_model).grid.extent_m = <<3, 4, 2>>
    /\ The(env_model).grid.cell_m = <<2, 2, 2>>
    /\ Len(b_areas) = 2
    /\ b_areas[2].area_id = "area_1_0"
    /\ b_areas[2].bounds = <<0, 2, 0, 2, 4, 2>>

\* C14: once build_links has run there is exactly one link per emitted
\* area, in the areas' order, each naming an emitted property, and every
\* emitted property is named by a link; and validate_integrity on the
\* Environment loaded from the written tables reports four empty lists.
C14_LinkClosure ==
    /\ step \in {"links", "written"} =>
          /\ Len(b_links) = Len(b_areas)
          /\ \A i \in DOMAIN b_areas :
                Cardinality({ k \in DOMAIN b_links :
                                b_links[k].area_id = b_areas[i].area_id }) = 1
          /\ \A k \in DOMAIN b_links :
                /\ \E i \in DOMAIN b_areas : b_areas[i].area_id = b_links[k].area_id
                /\ \E j \in DOMAIN b_props : b_props[j].id = b_links[k].area_property_id
          /\ \A j \in DOMAIN b_props :
                \E k \in DOMAIN b_links : b_links[k].area_property_id = b_props[j].id
    /\ (step = "written" /\ bvh_root # None) =>
          LET report == validate_integrity(AreaKeys(areas), links, properties)
          IN  /\ report.areas_without_link = {}
              /\ report.links_to_missing_property = {}
              /\ report.properties_unreferenced = {}
              /\ report.links_to_missing_area = {}

\* C14 witness: the four cells of a compiled scene, loaded, with four links
\* and four properties.
C14_Witness ==
    /\ step = "written" /\ bvh_root # None
    /\ Len(b_links) = 4 /\ Len(b_props) = 4
    /\ Cardinality(DOMAIN links) = 4 /\ Cardinality(DOMAIN properties) = 4
    /\ Cardinality(AreaKeys(areas)) = 4

(***************************************************************************)
(* Directories holding any subset of the five file names, the two          *)
(* spellings of a file with different contents, and a roster of one drone. *)
(***************************************************************************)
AltLinkFile ==
    << [area_id |-> "a1", area_property_id |-> "p4"],
       [area_id |-> "a2", area_property_id |-> "p1"] >>

AltPropFile ==
    << [id |-> "p1", properties |-> Props(Some(<<0, 0, 9>>), Some(5), Some(3), None)] >>

FullDir ==
    ("area.json" :> RuntimeAreaFile)
       @@ ("link.json" :> RuntimeLinkFile) @@ ("area_link.json" :> AltLinkFile)
       @@ ("property.json" :> RuntimePropFile) @@ ("area_property.json" :> AltPropFile)

AllDirs == { [n \in names |-> FullDir[n]] : names \in SUBSET (DOMAIN FullDir) }

InitFiles ==
    /\ pc = "start"
    /\ env_dir \in AllDirs
    /\ config = [parses |-> TRUE,
                 robots |-> << Robot(DroneName(1), {POS_ORG}, {DISTURB_ORG}) >>]
    /\ pdu = "none" /\ drones = << >>
    /\ tick = 0 /\ poses = << >> /\ di = 0 /\ ticklog = << >>
    /\ NoBuilder
    /\ files = None
    /\ areas = << >> /\ links = << >> /\ properties = << >>
    /\ bvh_root = None
    /\ max_depth = DefaultMaxDepth
    /\ leaf_capacity = DefaultLeafCapacity
    /\ raised = ""
    /\ query = None /\ hits = << >> /\ visited = 0 /\ answer = None

SpecFiles == InitFiles /\ [][NextRuntime]_vars

Exists(name) == name \in DOMAIN env_dir

\* The file resolution took the first spelling of the link and property
\* files when it exists and the second otherwise.
FirstSpellingPreferred ==
    /\ links = LinksMap(env_dir[IF Exists("link.json") THEN "link.json"
                                ELSE "area_link.json"])
    /\ properties = PropsMap(env_dir[IF Exists("property.json") THEN "property.json"
                                     ELSE "area_property.json"])

\* Initialization failed with a file-not-found error before the transport
\* was initialized.
FileNotFound == pc = "raised" /\ raised = "FileNotFoundError" /\ pdu = "none"

\* C15 as stated: each of the three files has two accepted spellings, the
\* first preferred, and initialization fails with file-not-found, before
\* the transport is initialized, exactly when no spelling of some file
\* exists.
C15_TwoSpellingsEach ==
    /\ Len(AreaCandidates) = 2 /\ Len(LinkCandidates) = 2 /\ Len(PropCandidates) = 2
    /\ pc # "start" =>
          /\ FileNotFound <=>
                \/ \A i \in DOMAIN AreaCandidates : ~Exists(AreaCandidates[i])
                \/ \A i \in DOMAIN LinkCandidates : ~Exists(LinkCandidates[i])
                \/ \A i \in DOMAIN PropCandidates : ~Exists(PropCandidates[i])
          /\ pdu # "none" => FirstSpellingPreferred

\* C15, amended: the link file is found as link.json or area_link.json and
\* the property file as property.json or area_property.json, the first
\* spelling preferred when both exist, while the area file is found only as
\* area.json; initialization fails with file-not-found, before the
\* transport is initialized, exactly when area.json or both spellings of
\* the link file or both spellings of the property file are missing.
C15_FileResolution ==
    pc # "start" =>
       /\ FileNotFound <=>
             \/ ~Exists("area.json")
             \/ (~Exists("link.json") /\ ~Exists("area_link.json"))
             \/ (~Exists("property.json") /\ ~Exists("area_property.json"))
       /\ raised = "FileNotFoundError" => FileNotFound
       /\ pdu # "none" => FirstSpellingPreferred

\* C15 witness: only the second spellings of the link and property files
\* exist, and the runtime is initialized from them.
C15_Witness ==
    /\ pc = "roster" /\ pdu = "started"
    /\ DOMAIN env_dir = {"area.json", "area_link.json", "area_property.json"}
    /\ links = LinksMap(AltLinkFile)
    /\ properties = PropsMap(AltPropFile)

\* C15, another case: both spellings exist and the first ones are loaded.
C15_WitnessBoth ==
    /\ pc = "roster" /\ DOMAIN env_dir = DOMAIN FullDir
    /\ links = LinksMap(RuntimeLinkFile) /\ links # LinksMap(AltLinkFile)
    /\ properties = PropsMap(RuntimePropFile)

(***************************************************************************)
(* Claims about the order of the calls of the runtime loop (SpecRuntime).  *)
(***************************************************************************)
\* Every drone of the roster has been dealt with in the current tick: its
\* pose has been read and, when the pose was readable, its write_disturbance
\* call has returned.
TickComplete ==
    /\ di = Len(drones) + 1
    /\ \A k \in DOMAIN drones :
          /\ CallsOf("read_pose", k) # {}
          /\ Readable(poses[k]) =>
                \E i \in CallsOf("write_disturbance", k) : ticklog[i].ret # "raise"

\* The callback waits on the tick source in this step: my_sleep is called,
\* and grants a tick or reports end-of-stream.
WaitsOnTickSource == tick' = tick + 1 \/ (pc # "returned" /\ pc' = "returned")

\* C16: the callback waits on the tick source only between ticks, when the
\* read, lookup and write of every drone for the tick before have finished,
\* and nothing is read or written before the first tick is granted.
C16_OneTickOutstanding ==
    /\ [][WaitsOnTickSource => (pc = "sleep" /\ (tick >= 1 => TickComplete))]_vars
    /\ [](tick = 0 => ticklog = << >>)

\* C16 witness: the second tick has been granted, after both drones got
\* their disturbance in the first.
C16_Witness ==
    /\ tick = 2 /\ pc = "loop" /\ di = 2 /\ Len(drones) = 2
    /\ CallsOf("write_disturbance", 1) # {}

\* The positions in the config file of the robots that have a name.
NamedRobots == { i \in DOMAIN config.robots : config.robots[i].name # "" }

\* The k-th named robot of the config file.
NthNamed(k) ==
    CHOOSE i \in NamedRobots : Cardinality({ j \in NamedRobots : j < i }) = k - 1

\* The roster has been built.
RosterBuilt == pc \in {"sleep", "loop", "returned"} \/ (pc = "raised" /\ tick >= 1)

\* C17: the roster is the named robots of the config file in file order,
\* whatever channels they have; the log of a tick starts with the one
\* run_nowait call, and after it the calls of a drone all come before the
\* calls of every drone later in the roster.
C17_RosterOrder ==
    /\ RosterBuilt =>
          /\ Len(drones) = Cardinality(NamedRobots)
          /\ \A k \in DOMAIN drones : drones[k].name = config.robots[NthNamed(k)].name
    /\ tick >= 1 =>
          /\ ticklog[1].op = "run_nowait"
          /\ \A a \in DOMAIN ticklog :
                /\ a > 1 => (ticklog[a].op # "run_nowait" /\ ticklog[a].drone \in DOMAIN drones)
                /\ \A b \in DOMAIN ticklog : a < b => ticklog[a].drone <= ticklog[b].drone
          /\ \A k \in DOMAIN drones :
                k < di => CallsOf("read_pose", k) # {}

\* C17 witness: the robots Drone8 (no pos reader) and Drone9 (no disturb
\* writer) stand around a nameless robot in the file; both are in the roster
\* in that order, and in one tick the write of the first precedes the read
\* of the second.
C17_Witness ==
    /\ pc = "sleep" /\ tick >= 1
    /\ Len(config.robots) = 3
    /\ Len(drones) = 2 /\ drones[1].name = "Drone8" /\ drones[2].name = "Drone9"
    /\ \E a \in CallsOf("write_disturbance", 1) :
          \E b \in CallsOf("read_pose", 2) : a < b

C18_WitnessLaterTick ==
    /\ tick = 2 /\ pc = "sleep" /\ Len(drones) = 2
    /\ poses[1] = RawTwist(<<1, 1, 1>>)
    /\ \E i \in CallsOf("flush", 1) :
          ticklog[i].dist = Some(Disturbance(<<1, 2, 3>>, 20, 1))

\* C19: once the loop is entered the callback ends in one way only, by
\* returning after the tick source reported end-of-stream, and the report
\* comes between ticks, with no call of the tick before left undone.
C19_TerminationOnEndOfStream ==
    /\ (RosterBuilt /\ pc \notin {"sleep", "loop"}) => (pc = "returned" /\ raised = "")
    /\ (pc = "returned" /\ tick >= 1) => TickComplete

\* C19, the part the loop keeps: the end-of-stream report ends the callback
\* in the same step, with no drain, read or write made for it, and the only
\* other way out of the loop is the exception of a transport write.
C19_ReturnOnEndOfStream ==
    [][/\ (pc = "sleep" /\ pc' # "sleep" /\ tick' = tick) =>
             (pc' = "returned" /\ ticklog' = ticklog /\ raised' = raised)
       /\ (pc = "loop" /\ pc' \notin {"sleep", "loop"}) =>
             (pc' = "raised" /\ raised' = "Exception")
       /\ pc = "returned" => pc' = "returned"]_vars

(***************************************************************************)
(* Per-drone independence, by comparing the tick of this run with the tick *)
(* of every run that has other poses for the other drones.  A transport    *)
(* behaviour o says for each drone whether a write for it raises ("raise") *)
(* or not ("ok").                                                          *)
(***************************************************************************)
TransportBehaviours == [DOMAIN drones -> {"ok", "raise"}]

\* The disturbances passed to write_disturbance for each drone in a tick
\* with the channel contents q under the transport behaviour o, from drone
\* k on; acc holds those of the drones before k.
RECURSIVE SimWrites(_, _, _, _)
SimWrites(q, o, k, acc) ==
    IF k > Len(drones) THEN acc
    ELSE LET pose == read_pose(q[k])
         IN  IF pose = None THEN SimWrites(q, o, k + 1, acc)
             ELSE LET r == get_property_at(The(bvh_root), links, properties, The(pose))
                      acc2 == [acc EXCEPT ![k] = << make_disturbance(r.props) >>]
                  IN  IF o[k] = "raise" THEN acc2 ELSE SimWrites(q, o, k + 1, acc2)

NoWrites == [k \in DOMAIN drones |-> << >>]

\* The disturbances passed to write_disturbance for drone k in this tick.
ObservedWrites(k) ==
    LET calls == CallsOf("write_disturbance", k)
    IN  IF calls = {} THEN << >>
        ELSE << The(ticklog[CHOOSE i \in calls : TRUE].dist) >>

\* The behaviour o is the transport's in this run, as far as the run shows.
ConsistentWithRun(o) ==
    \A k \in DOMAIN drones :
       \A i \in CallsOf("write_disturbance", k) :
          (o[k] = "raise") <=> (ticklog[i].ret = "raise")

\* C20: when a tick is over, the disturbances written for a drone are those
\* of every tick run with the same transport, the same pose for this drone
\* and any poses, present, absent or undecodable, for the other drones.
C20_PerDroneIndependence ==
    TickOver =>
       \A k \in DOMAIN drones :
          \A q \in [DOMAIN drones -> RawPoses], o \in TransportBehaviours :
             (q[k] = poses[k] /\ ConsistentWithRun(o)) =>
                SimWrites(q, o, 1, NoWrites)[k] = ObservedWrites(k)

\* C20, the part the loop keeps: under a transport whose writes do not
\* raise, the disturbances written for a drone depend on its own pose only.
C20_IndependentUnlessWriteRaises ==
    (TickOver /\ pc # "raised") =>
       \A k \in DOMAIN drones :
          \A q \in [DOMAIN drones -> RawPoses] :
             q[k] = poses[k] =>
                SimWrites(q, [j \in DOMAIN drones |-> "ok"], 1, NoWrites)[k]
                   = ObservedWrites(k)

(***************************************************************************)
(* fastsearch/envbuilder.py: the inspection methods of the Environment,    *)
(* and the lifetime of an Environment inside the runtime callback.         *)
(* Environment.areas is a dict keyed by area id: of two entries of         *)
(* area.json with one id it keeps the last.                                *)
(***************************************************************************)
\* area_bounds: the six bounds of the area, None for an unknown id.
area_bounds(list, area_id) ==
    LET keys == [i \in DOMAIN list |-> list[i].id]
    IN  IF \E i \in DOMAIN keys : keys[i] = area_id
        THEN LET a == list[LastIndexOf(keys, area_id)]
             IN  Some(<<a.minx, a.miny, a.minz, a.maxx, a.maxy, a.maxz>>)
        ELSE None

\* link_of: links.get(area_id).
link_of(lnk, area_id) == IF area_id \in DOMAIN lnk THEN Some(lnk[area_id]) ELSE None

\* area_property: the props dict of the property, None for an unknown id.
area_property(prp, pid) == IF pid \in DOMAIN prp THEN Some(prp[pid]) ELSE None

\* "x if pid else None": an id that is None or the empty string is falsy.
Truthy(o) == o # None /\ The(o) # ""

\* inspect_area(area_id)
inspect_area(list, lnk, prp, area_id) ==
    LET pid == link_of(lnk, area_id)
        props == IF Truthy(pid) THEN area_property(prp, The(pid)) ELSE None
    IN  [area_id |-> area_id, bounds |-> area_bounds(list, area_id),
         linked_property_id |-> pid, has_property |-> props # None,
         properties |-> props]

\* debug_at(x, y, z, precise=...): a search with fresh hits and stats, then
\* the bounds of every hit and the link and property of the first.
debug_at(root, list, lnk, prp, p, precise) ==
    LET s == search_point(root, p, NoHits, precise)
        primary == IF s.found # << >> THEN Some(s.found[1]) ELSE None
        pid == IF Truthy(primary) THEN link_of(lnk, The(primary)) ELSE None
        props == IF Truthy(pid) THEN area_property(prp, The(pid)) ELSE None
    IN  [point |-> p, visited_nodes |-> s.visited,
         hits |-> [i \in DOMAIN s.found |->
                      [area_id |-> s.found[i], bounds |-> area_bounds(list, s.found[i])]],
         primary_area |-> primary, linked_property_id |-> pid,
         has_property |-> props # None, properties |-> props]

\* explain_at: the report built from debug_at, as the list of its parts (the
\* text of a line is not modelled, only what the line shows).
explain_at(root, list, lnk, prp, p, precise) ==
    LET info == debug_at(root, list, lnk, prp, p, precise)
        head == << [line |-> "point", shows |-> <<info.point, info.visited_nodes>>] >>
    IN  IF info.hits = << >>
        THEN head \o << [line |-> "no hit", shows |-> << >>] >>
        ELSE head
             \o << [line |-> "hits", shows |-> info.hits] >>
             \o << [line |-> "primary", shows |-> info.primary_area] >>
             \o << [line |-> "link", shows |-> info.linked_property_id] >>
             \o (IF info.has_property
                 THEN << [line |-> "properties", shows |-> info.properties] >>
                 ELSE << [line |-> "property not found", shows |-> << >>] >>)

LifetimePoints == { <<1, 1, 1>>, <<2, 1, 1>>, <<3, 3, 1>>, <<5, 5, 5>> }

LifetimeAreaIds == { "a1", "a2", "a3", "zz" }

\* One call of an inspection method on the loaded Environment; the answer
\* is kept with the name of the method.
Called(op, result) == Some([op |-> op, result |-> result])

FindAreaIdsAt ==
    /\ bvh_root # None
    /\ \E p \in LifetimePoints :
          LET r == search_point(The(bvh_root), p, NoHits, TRUE)
          IN  /\ query' = Some(p) /\ hits' = r.found /\ visited' = r.visited
              /\ answer' = Called("find_area_ids_at", find_area_ids_at(The(bvh_root), p))
    /\ UNCHANGED <<rvars, areas, links, properties, bvh_root, max_depth, leaf_capacity,
                   raised, files, cvars>>

FindPrimaryAreaAt ==
    /\ bvh_root # None
    /\ \E p \in LifetimePoints :
          LET r == search_point(The(bvh_root), p, NoHits, TRUE)
          IN  /\ query' = Some(p) /\ hits' = r.found /\ visited' = r.visited
              /\ answer' = Called("find_primary_area_at",
                                  find_primary_area_at(The(bvh_root), p))
    /\ UNCHANGED <<rvars, areas, links, properties, bvh_root, max_depth, leaf_capacity,
                   raised, files, cvars>>

DebugAt ==
    /\ bvh_root # None
    /\ \E p \in LifetimePoints, precise \in BOOLEAN :
          LET r == search_point(The(bvh_root), p, NoHits, precise)
          IN  /\ query' = Some(p) /\ hits' = r.found /\ visited' = r.visited
              /\ answer' = Called("debug_at",
                                  debug_at(The(bvh_root), areas, links, properties, p, precise))
    /\ UNCHANGED <<rvars, areas, links, properties, bvh_root, max_depth, leaf_capacity,
                   raised, files, cvars>>

ExplainAt ==
    /\ bvh_root # None
    /\ \E p \in LifetimePoints, precise \in BOOLEAN :
          LET r == search_point(The(bvh_root), p, NoHits, precise)
          IN  /\ query' = Some(p) /\ hits' = r.found /\ visited' = r.visited
              /\ answer' = Called("explain_at",
                                  explain_at(The(bvh_root), areas, links, properties, p, precise))
    /\ UNCHANGED <<rvars, areas, links, properties, bvh_root, max_depth, leaf_capacity,
                   raised, files, cvars>>

InspectArea ==
    /\ bvh_root # None
    /\ \E aid \in LifetimeAreaIds :
          answer' = Called("inspect_area", inspect_area(areas, links, properties, aid))
    /\ UNCHANGED <<rvars, areas, links, properties, bvh_root, max_depth, leaf_capacity,
                   raised, files, cvars, query, hits, visited>>

ValidateIntegrity ==
    /\ bvh_root # None
    /\ answer' = Called("validate_integrity",
                        validate_integrity(AreaKeys(areas), links, properties))
    /\ UNCHANGED <<rvars, areas, links, properties, bvh_root, max_depth, leaf_capacity,
                   raised, files, cvars, query, hits, visited>>

\* The callback with one drone, and a caller of the Environment's methods
\* between its steps.
InitLifetime ==
    /\ InitRuntime
    /\ config = [parses |-> TRUE,
                 robots |-> << Robot(DroneName(1), {POS_ORG}, {DISTURB_ORG}) >>]

NextLifetime ==
    \/ NextRuntime
    \/ GetPropertyAt \/ FindAreaIdsAt \/ FindPrimaryAreaAt
    \/ DebugAt \/ ExplainAt \/ InspectArea \/ ValidateIntegrity

SpecLifetime == InitLifetime /\ [][NextLifetime]_vars

\* C21: once the Environment is constructed, no call of its methods and no
\* step of the runtime changes the areas, links and properties tables or the
\* tree (boxes, children, leaf members and their order), and the point that
\* was looked up has the same answer after the step as before it.
C21_EnvironmentImmutable ==
    [][bvh_root # None =>
         /\ areas' = areas /\ links' = links /\ properties' = properties
         /\ bvh_root' = bvh_root
         /\ query' # None =>
               get_property_at(The(bvh_root'), links', properties', The(query'))
                  = get_property_at(The(bvh_root), links, properties, The(query'))]_vars

\* C21 witness: the second tick is over, a disturbance was written in it,
\* and validate_integrity was called after it on the loaded Environment.
C21_Witness ==
    /\ bvh_root # None /\ tick = 2 /\ pc = "sleep"
    /\ \E i \in DOMAIN ticklog : ticklog[i].op = "write_disturbance"
    /\ answer # None /\ "op" \in DOMAIN The(answer)
    /\ The(answer).op = "validate_integrity"

(***************************************************************************)
(* The integrity report, on the datasets written by hand.                  *)
(***************************************************************************)
NextIntegrity == LoadEnvironment \/ GetPropertyAt \/ ValidateIntegrity

SpecIntegrity == InitEnv /\ [][NextIntegrity]_vars

IsReport(a) == a # None /\ "op" \in DOMAIN The(a) /\ The(a).op = "validate_integrity"

IsLookup(a) == a # None /\ "aid" \in DOMAIN The(a)

\* C22: validate_integrity does not raise and its report has exactly the
\* four categories: the area ids that are no key of links, the links whose
\* property id is not in properties, the property ids no link names, the
\* link area ids that are not in areas; and a lookup that hits an area aid
\* returns (aid, None) exactly when aid is in areas_without_link or is the
\* area of an entry of links_to_missing_property.
C22_IntegrityReport ==
    /\ IsReport(answer) =>
         LET v == The(answer).result
             ids == { areas[i].id : i \in DOMAIN areas }
         IN  /\ raised = ""
             /\ DOMAIN v = { "areas_without_link", "links_to_missing_property",
                             "properties_unreferenced", "links_to_missing_area" }
             /\ \A a \in ids \cup DOMAIN links \cup {"zz"} :
                   /\ a \in v.areas_without_link <=> (a \in ids /\ a \notin DOMAIN links)
                   /\ a \in v.links_to_missing_area <=> (a \in DOMAIN links /\ a \notin ids)
                   /\ (\E e \in v.links_to_missing_property : e.area_id = a)
                         <=> (a \in DOMAIN links /\ links[a] \notin DOMAIN properties)
             /\ \A e \in v.links_to_missing_property :
                   e.area_id \in DOMAIN links /\ e.missing_property_id = links[e.area_id]
             /\ \A q \in DOMAIN properties \cup {"p1", "p2", "p9"} :
                   q \in v.properties_unreferenced
                      <=> (q \in DOMAIN properties
                           /\ ~\E a \in DOMAIN links : links[a] = q)
    /\ (IsLookup(answer) /\ The(answer).aid # None) =>
         LET r == The(answer)
             v == validate_integrity(AreaKeys(areas), links, properties)
         IN  r.props = None
                <=> \/ The(r.aid) \in v.areas_without_link
                    \/ \E e \in v.links_to_missing_property : e.area_id = The(r.aid)

\* C22 witness: a report with an entry in each of the four categories.
C22_Witness ==
    /\ IsReport(answer)
    /\ \A k \in DOMAIN The(answer).result : The(answer).result[k] # {}

\* C22 witness of the lookup: a hit area whose link names a missing property.
C22_WitnessLookup ==
    /\ IsLookup(answer) /\ The(answer).aid # None /\ The(answer).props = None
    /\ The(The(answer).aid) \in DOMAIN links

(***************************************************************************)
(* Shape of the tree build_bvh returns.                                    *)
(***************************************************************************)
\* The nodes of a tree, each with its depth (the root has depth d).
RECURSIVE NodesAt(_, _)
NodesAt(node, d) ==
    {[node |-> node, depth |-> d]}
    \cup (IF node.left # None THEN NodesAt(The(node.left), d + 1) ELSE {})
    \cup (IF node.right # None THEN NodesAt(The(node.right), d + 1) ELSE {})

\* C23: in the tree built from a non-empty list with leaf_capacity >= 1,
\* every leaf has a member, a leaf above the depth cap has at most
\* leaf_capacity members, no node is deeper than max_depth, and every
\* inner node has a left and a right child.
C23_BvhShape ==
    bvh_root # None =>
        \A n \in NodesAt(The(bvh_root), 0) :
           /\ n.depth <= max_depth
           /\ n.node.is_leaf =>
                 /\ Len(n.node.areas) >= 1
                 /\ n.depth < max_depth => Len(n.node.areas) <= leaf_capacity
                 /\ n.node.left = None /\ n.node.right = None
           /\ ~n.node.is_leaf => (n.node.left # None /\ n.node.right # None)

\* C23 witness: a tree with an inner node and a leaf at the depth cap that
\* holds more than leaf_capacity members.
C23_Witness ==
    /\ bvh_root # None /\ ~The(bvh_root).is_leaf
    /\ \E n \in NodesAt(The(bvh_root), 0) :
          n.node.is_leaf /\ n.depth = max_depth /\ Len(n.node.areas) > leaf_capacity

\* C23 witness of a leaf above the depth cap, below an inner node.
C23_WitnessAboveCap ==
    /\ bvh_root # None /\ ~The(bvh_root).is_leaf
    /\ \E n \in NodesAt(The(bvh_root), 0) :
          n.node.is_leaf /\ n.depth < max_depth

\* Box b is the component-wise union of the boxes of the non-empty list bs:
\* each face of b is a face of some box of bs, and b contains every box.
BoxContains(b, a) ==
    /\ b.minx <= a.minx /\ b.miny <= a.miny /\ b.minz <= a.minz
    /\ b.maxx >= a.maxx /\ b.maxy >= a.maxy /\ b.maxz >= a.maxz

IsUnionOf(b, bs) ==
    /\ \A i \in DOMAIN bs : BoxContains(b, bs[i])
    /\ \A k \in {"minx", "miny", "minz", "maxx", "maxy", "maxz"} :
          \E i \in DOMAIN bs : Field(b, k) = Field(bs[i], k)

\* All members of the leaves of a subtree, left to right.
RECURSIVE MembersBelow(_)
MembersBelow(node) ==
    IF node.is_leaf THEN node.areas
    ELSE MembersBelow(The(node.left)) \o MembersBelow(The(node.right))

\* C24: every leaf's box is the component-wise union of its members' boxes,
\* every inner node's box is the component-wise union of its two children's
\* boxes, and every node's box contains every input AABB stored in a leaf of
\* its subtree.
C24_BvhContainment ==
    bvh_root # None =>
        \A n \in NodesAt(The(bvh_root), 0) :
           /\ n.node.is_leaf => IsUnionOf(n.node.aabb, n.node.areas)
           /\ ~n.node.is_leaf =>
                 IsUnionOf(n.node.aabb,
                           << The(n.node.left).aabb, The(n.node.right).aabb >>)
           /\ \A i \in DOMAIN MembersBelow(n.node) :
                 BoxContains(n.node.aabb, MembersBelow(n.node)[i])

\* C24 witness: an inner node whose box is the box of neither child, above
\* a leaf of two members whose box is the box of neither member.
C24_Witness ==
    /\ bvh_root # None
    /\ \E n \in NodesAt(The(bvh_root), 0) :
          /\ ~n.node.is_leaf
          /\ ~BoxContains(The(n.node.left).aabb, n.node.aabb)
          /\ ~BoxContains(The(n.node.right).aabb, n.node.aabb)
    /\ \E n \in NodesAt(The(bvh_root), 0) :
          /\ n.node.is_leaf /\ Len(n.node.areas) = 2
          /\ \A i \in DOMAIN n.node.areas : ~BoxContains(n.node.areas[i], n.node.aabb)

(***************************************************************************)
(* Searches on grid tilings: nx x ny cells of edge 2 in one layer of        *)
(* height 2, listed row by row or in the reverse order, and query points   *)
(* on every lattice point of the grid, its seams and its outer faces.      *)
(***************************************************************************)
SeamCells == 2      \* a grid has up to SeamCells cells along x and along y

TileList(nx, ny) ==
    [i \in 1..(nx * ny) |->
        LET ix == (i - 1) % nx
            iy == (i - 1) \div nx
        IN  AABB(2 * ix, 2 * iy, 0, 2 * ix + 2, 2 * iy + 2, 2, i)]

Reversed(s) == [i \in DOMAIN s |-> s[Len(s) + 1 - i]]

Tilings ==
    UNION { { TileList(nx, ny), Reversed(TileList(nx, ny)) } :
              nx \in 1..SeamCells, ny \in 1..SeamCells }

SeamPoints ==
    { <<x, y, z>> : x \in 0..(2 * SeamCells), y \in 0..(2 * SeamCells), z \in 0..2 }

InitSeams ==
    /\ areas \in Tilings
    /\ max_depth = DefaultMaxDepth
    /\ leaf_capacity = DefaultLeafCapacity
    /\ NoBuilder /\ NoRuntime
    /\ links = << >> /\ properties = << >>
    /\ bvh_root = None
    /\ raised = ""
    /\ query = None /\ hits = << >> /\ visited = 0 /\ answer = None
    /\ files = None

\* search_point(root, x, y, z, precise=True) at a point of the grid.
SearchSeamPoint ==
    /\ bvh_root # None
    /\ \E p \in SeamPoints :
          LET r == search_point(The(bvh_root), p, NoHits, TRUE)
          IN  /\ query' = Some(p)
              /\ hits' = r.found
              /\ visited' = r.visited
    /\ UNCHANGED <<rvars, areas, links, properties, bvh_root, max_depth, leaf_capacity,
                   raised, answer, files, cvars>>

NextSeams == BuildBvh \/ SearchSeamPoint

SpecSeams == InitSeams /\ [][NextSeams]_vars

\* p lies on the face x = c or y = c that cell a (max face) shares with
\* cell b (min face), within the extent of the face.
OnSharedFace(a, b, p) ==
    \/ /\ a.maxx = b.minx /\ p[1] = b.minx /\ a.miny = b.miny
       /\ b.miny <= p[2] /\ p[2] < b.maxy /\ b.minz <= p[3] /\ p[3] < b.maxz
    \/ /\ a.maxy = b.miny /\ p[2] = b.miny /\ a.minx = b.minx
       /\ b.minx <= p[1] /\ p[1] < b.maxx /\ b.minz <= p[3] /\ p[3] < b.maxz

OnGridMaxFace(p) ==
    \/ \A i \in DOMAIN areas : p[1] >= areas[i].maxx
    \/ \A i \in DOMAIN areas : p[2] >= areas[i].maxy
    \/ \A i \in DOMAIN areas : p[3] >= areas[i].maxz

\* C25: on a grid tiling a precise search returns at most one id; a point on
\* a face shared by two cells is reported for the cell whose min face it is
\* and not for the other; a point on a max face of the whole grid yields no
\* hit.
C25_NoDoubleHits ==
    (query # None /\ bvh_root # None) =>
        LET p == The(query) IN
        /\ Len(hits) <= 1
        /\ \A i, j \in DOMAIN areas :
              OnSharedFace(areas[i], areas[j], p) => hits = << areas[j].id >>
        /\ OnGridMaxFace(p) => hits = << >>

\* C25 witness: the point lies on the face shared by two cells that are in
\* different subtrees of the root, and the search returned the cell whose
\* min face it is.
C25_Witness ==
    /\ query # None /\ bvh_root # None /\ ~The(bvh_root).is_leaf
    /\ \E i, j \in DOMAIN areas :
          /\ OnSharedFace(areas[i], areas[j], The(query))
          /\ InList(MembersBelow(The(The(bvh_root).left)), areas[i])
          /\ InList(MembersBelow(The(The(bvh_root).right)), areas[j])
          /\ hits = << areas[j].id >>

\* C25 witness of a miss on the outer max face, inside the root's closed box.
C25_WitnessMaxFace ==
    /\ query # None /\ bvh_root # None
    /\ The(query)[1] = The(bvh_root).aabb.maxx /\ The(query)[2] = 1 /\ The(query)[3] = 1
    /\ hits = << >>

\* C26: wherever build_bvh split a list at the median index, the left child
\* received at least as many members as the right child.
C26_LeftHeavySplit ==
    bvh_root # None =>
        \A n \in NodesAt(The(bvh_root), 0) :
           ~n.node.is_leaf =>
              Len(MembersBelow(The(n.node.left))) >= Len(MembersBelow(The(n.node.right)))

\* C26 (amended): wherever build_bvh split a list, the left child received
\* len // 2 members and the right child the rest, so of an odd number the
\* right child has one more and of an even number both have the same.
C26_RightGetsTheRest ==
    bvh_root # None =>
        \A n \in NodesAt(The(bvh_root), 0) :
           ~n.node.is_leaf =>
              LET nl == Len(MembersBelow(The(n.node.left)))
                  nr == Len(MembersBelow(The(n.node.right)))
              IN  nl = (nl + nr) \div 2 /\ nr - nl \in {0, 1}

\* C26 witness: an inner node over three members, one on the left and two
\* on the right.
C26_Witness ==
    /\ bvh_root # None
    /\ \E n \in NodesAt(The(bvh_root), 0) :
          /\ ~n.node.is_leaf
          /\ Len(MembersBelow(The(n.node.left))) = 1
          /\ Len(MembersBelow(The(n.node.right))) = 2

\* All boxes of the list have the same centre: the spread is zero on the
\* three axes.
SameCenter(as) == \A k \in 1..3 : Spread2(as, k) = 0

\* C27: a list of more than leaf_capacity AABBs with one common centre,
\* built with max_depth > 0, gives a single leaf that holds all of them.
C27_DegenerateLeaf ==
    (bvh_root # None /\ SameCenter(areas)
       /\ Len(areas) > leaf_capacity /\ 0 < max_depth) =>
          /\ The(bvh_root).is_leaf
          /\ Len(The(bvh_root).areas) = Len(areas)

\* C27, what the build does: a list longer than leaf_capacity is split above
\* the depth cap, whatever its spreads are.
C27_SplitWhateverTheSpread ==
    (bvh_root # None /\ Len(areas) > leaf_capacity /\ 0 < max_depth) =>
          ~The(bvh_root).is_leaf

\* C28: build_bvh raises only on an empty list; in the tree it returns,
\* every input AABB is a member of exactly one leaf, once, no leaf holds
\* anything else, and each leaf's ids are its members' ids in order.
C28_LeavesPartitionInput ==
    /\ raised # "" => Len(areas) = 0
    /\ bvh_root # None =>
         LET leaves == LeafLists(The(bvh_root))
             Places(a) == { <<k, i>> \in (DOMAIN leaves) \X (1..Len(areas)) :
                               i \in DOMAIN leaves[k] /\ leaves[k][i] = a }
         IN  /\ \A j \in DOMAIN areas : Cardinality(Places(areas[j])) = 1
             /\ \A k \in DOMAIN leaves : \A i \in DOMAIN leaves[k] :
                   InList(areas, leaves[k][i])
             /\ \A n \in NodesAt(The(bvh_root), 0) :
                   n.node.is_leaf =>
                      n.node.ids = [i \in DOMAIN n.node.areas |-> n.node.areas[i].id]

\* C28 witness: three inputs in three leaves, in an order that is not the
\* order they were handed in (the ids were 1, 2, 3).
C28_Witness ==
    /\ bvh_root # None /\ Len(areas) = 3
    /\ Len(LeafLists(The(bvh_root))) = 3
    /\ MembersBelow(The(bvh_root))[1].id # 1

\* min <= p < max on the three axes.
HalfOpenContains(a, p) ==
    /\ a.minx <= p[1] /\ p[1] < a.maxx
    /\ a.miny <= p[2] /\ p[2] < a.maxy
    /\ a.minz <= p[3] /\ p[3] < a.maxz

\* C29: every id a precise search returns is the id of an input AABB that
\* half-open-contains the query point; every leaf contributes at most one
\* id; and a point outside the root box gives the empty list after a visit
\* of the root only.
C29_PreciseSearchSound ==
    (query # None /\ bvh_root # None) =>
        LET p == The(query)
            leaves == LeafLists(The(bvh_root))
        IN  /\ \A h \in DOMAIN hits :
                  \E i \in DOMAIN areas :
                     areas[i].id = hits[h] /\ HalfOpenContains(areas[i], p)
            /\ \A k \in DOMAIN leaves :
                  Cardinality({ h \in DOMAIN hits :
                                   \E i \in DOMAIN leaves[k] : leaves[k][i].id = hits[h] }) <= 1
            /\ ~HalfOpenContains(The(bvh_root).aabb, p) =>
                  (hits = << >> /\ visited = 1)

\* C29 witness: two leaves contributed an id each, and one of them holds two
\* members that both contain the point.
C29_Witness ==
    /\ query # None /\ bvh_root # None /\ Len(hits) = 2
    /\ \E k \in DOMAIN LeafLists(The(bvh_root)) :
          LET m == LeafLists(The(bvh_root))[k]
          IN  /\ Len(m) = 2
              /\ HalfOpenContains(m[1], The(query)) /\ HalfOpenContains(m[2], The(query))
              /\ InList(hits, m[1].id)

\* C29 witness of a point outside the root box.
C29_WitnessOutside ==
    /\ query # None /\ bvh_root # None
    /\ ~HalfOpenContains(The(bvh_root).aabb, The(query))
    /\ hits = << >> /\ visited = 1

(***************************************************************************)
(* Scenes for the frame of apply_zones: a 2 x 2 grid of cells of edge 2    *)
(* and zones that cover one cell centre and reach into the neighbouring    *)
(* cells, cover one centre only, add noise, or have a mode that touches    *)
(* the GPS strength alone.                                                 *)
(***************************************************************************)
FrameCatalogue ==
    { Zone("P1", Rect(<<1, 1>>, <<3, 3>>),
           Effect("add", NoVec, 1, <<0, 1, 0>>, None, Some(<<-1, 2>>), None), 5),
      Zone("Z3", Circle(<<1, 1>>, 1),
           Effect("absolute", <<0, 5, 0>>, 1, NoVec, None, None, None), 10),
      Zone("T2", Circle(<<1, 1>>, 1), Turbulence(Some(2), 2, "gauss"), 10),
      Zone("Z5", Rect(<<3, 3>>, <<2, 2>>),
           Effect("gps", NoVec, 1, NoVec, Some(<<1, 2>>), None, None), 0) }

FrameScenes ==
    { [base |-> [wind |-> <<1, 0, 0>>, temperature_C |-> Some(15),
                 pressure_atm |-> None, gps_strength |-> Some(<<4, 5>>)],
       grid |-> [extent_m |-> <<4, 4, 2>>, cell_m |-> <<2, 2, 2>>],
       zones |-> z] :
         z \in { None } \cup
               { Some(zl) : zl \in UNION { [1..n -> FrameCatalogue] : n \in 0..MaxZones } } }

InitFrame ==
    /\ env_model \in { Some(sc) : sc \in FrameScenes }
    /\ py_rng = 0 /\ np_rng \in RngStates
    /\ base_prop = None
    /\ b_areas = << >> /\ b_props = << >> /\ b_links = << >>
    /\ step = "new"
    /\ NoRuntime
    /\ files = None
    /\ areas = << >> /\ links = << >> /\ properties = << >>
    /\ bvh_root = None
    /\ max_depth = DefaultMaxDepth
    /\ leaf_capacity = DefaultLeafCapacity
    /\ raised = ""
    /\ query = None /\ hits = << >> /\ visited = 0 /\ answer = None

SpecFrame == InitFrame /\ [][NextCompile]_vars

\* The XY centre of the cell lies inside the zone's shape (the centre is
\* ((min + max) / 2 on each axis; the comparison is made on doubled lengths).
CenterInShape(z, b) ==
    LET ex == (b[1] + b[4]) - 2 * z.shape.center_m[1]
        ey == (b[2] + b[5]) - 2 * z.shape.center_m[2]
    IN  \/ /\ z.shape.kind = "circle"
           /\ ex * ex + ey * ey <= 4 * z.shape.radius_m * z.shape.radius_m
        \/ /\ z.shape.kind = "rect"
           /\ -z.shape.size_m[1] <= ex /\ ex <= z.shape.size_m[1]
           /\ -z.shape.size_m[2] <= ey /\ ey <= z.shape.size_m[2]

InSomeZone(b) ==
    \E k \in DOMAIN ZoneDefs(The(env_model)) :
       CenterInShape(ZoneDefs(The(env_model))[k], b)

\* The zone's rectangle and the cell share a region of positive area.
RectOverlapsCell(z, b) ==
    /\ z.shape.kind = "rect"
    /\ 2 * z.shape.center_m[1] - z.shape.size_m[1] < 2 * b[4]
    /\ 2 * b[1] < 2 * z.shape.center_m[1] + z.shape.size_m[1]
    /\ 2 * z.shape.center_m[2] - z.shape.size_m[2] < 2 * b[5]
    /\ 2 * b[2] < 2 * z.shape.center_m[2] + z.shape.size_m[2]

\* C30: apply_zones leaves the areas, the links, the base and the number,
\* order and ids of the properties as they are; every property keeps its
\* temperature and sea_level_atm; a cell whose centre is in no zone keeps
\* its wind and its gps_strength; and every property written to the dataset
\* has the base temperature and sea_level_atm.
C30_ApplyZonesFrame ==
    /\ [][(step = "properties" /\ step' = "zones") =>
            /\ b_areas' = b_areas /\ b_links' = b_links
            /\ base_prop' = base_prop /\ env_model' = env_model
            /\ DOMAIN b_props' = DOMAIN b_props
            /\ \A i \in DOMAIN b_props :
                  /\ b_props'[i].id = b_props[i].id
                  /\ b_props'[i].properties.temperature = b_props[i].properties.temperature
                  /\ b_props'[i].properties.sea_level_atm
                        = b_props[i].properties.sea_level_atm
                  /\ ~InSomeZone(b_areas[i].bounds) =>
                        /\ b_props'[i].properties.wind_velocity
                              = The(base_prop).wind_velocity
                        /\ b_props'[i].properties.gps_strength
                              = The(base_prop).gps_strength]_vars
    /\ [](files # None =>
            \A i \in DOMAIN The(files).property :
               /\ The(files).property[i].properties.temperature
                     = Some(OrElse(The(env_model).base.temperature_C, DefaultTemperatureC))
               /\ The(files).property[i].properties.sea_level_atm
                     = Some(OrElse(The(env_model).base.pressure_atm, DefaultPressureAtm)))

\* C30 witness: after apply_zones, the first cell has another wind than the
\* base, and a cell that a zone's rectangle reaches into, with its centre in
\* no zone, has the base wind and the base gps_strength.
C30_Witness ==
    /\ step = "zones" /\ Len(b_props) = 4
    /\ b_props[1].properties.wind_velocity # The(base_prop).wind_velocity
    /\ \E i \in DOMAIN b_areas :
          /\ ~InSomeZone(b_areas[i].bounds)
          /\ \E k \in DOMAIN ZoneDefs(The(env_model)) :
                RectOverlapsCell(ZoneDefs(The(env_model))[k], b_areas[i].bounds)
          /\ b_props[i].properties.wind_velocity = The(base_prop).wind_velocity
          /\ b_props[i].properties.gps_strength = The(base_prop).gps_strength

=============================================================================
